---- MODULE Spec2Model ----
(***************************************************************************)
(* Display-topology configuration engine of hyprland-display-switcher:     *)
(* the configuration store (src/config.rs) and the display controller      *)
(* (src/display.rs).                                                       *)
(*                                                                         *)
(* Text (Rust String / &str) is a sequence of one-character strings, so    *)
(* that formatting, concatenation, splitting and parsing are computed.     *)
(* Option<T> is <<>> (None) or <<v>> (Some(v)).                            *)
(***************************************************************************)
EXTENDS Integers, Sequences, FiniteSets, TLC

VARIABLES
    extend_configurations,    \* ConfigManager.config.extend_configurations (HashMap key -> record)
    last_used_extend_config,  \* ConfigManager.config.last_used_extend_config (Option<key>)
    file,                     \* content of the persisted config.json (None when absent)
    now,                      \* last value read from chrono::Utc::now()
    monitors,                 \* the monitor inventory the operations are given
    call,                     \* the last operation called, with its arguments
    issued,                   \* what the last operation issued: Dispatch::call's and sleeps, in order
    result,                   \* the Result the last operation returned
    pc,                       \* "running", or "exited" after process::exit
    procs,                    \* the processes that share config.json: each one's ConfigManager
    query,                    \* the capability query of get_monitor_available_modes and its outcome
    available_modes,          \* the list get_monitor_available_modes returned
    host                      \* DisplaySwitcher.state: the State variant and its settings

vars == <<extend_configurations, last_used_extend_config, file, now, monitors,
          call, issued, result, pc, procs, query, available_modes, host>>

store_vars == <<extend_configurations, last_used_extend_config, file, now>>

disk_vars == <<procs>>

catalog_vars == <<query, available_modes>>

host_vars == <<host>>

(***************************************************************************)
(* Bounds                                                                  *)
(***************************************************************************)
\* The clock is read at most MaxTime times by save_extend_configuration.
MaxTime == 2

(***************************************************************************)
(* Option, Result                                                          *)
(***************************************************************************)
None == <<>>
Some(v) == <<v>>

Ok == [ok |-> TRUE, err |-> ""]
Err(e) == [ok |-> FALSE, err |-> e]

Min(S) == CHOOSE i \in S : \A j \in S : i <= j

Range(s) == {s[i] : i \in DOMAIN s}

(***************************************************************************)
(* Text                                                                    *)
(***************************************************************************)
DigitChars == <<"0", "1", "2", "3", "4", "5", "6", "7", "8", "9">>

IsAsciiDigit(c) == \E d \in DOMAIN DigitChars : DigitChars[d] = c

DigitValue(c) == (CHOOSE d \in DOMAIN DigitChars : DigitChars[d] = c) - 1

\* Display of a non-negative integer ("{}").
RECURSIVE FormatNat(_)
FormatNat(n) ==
    IF n < 10 THEN <<DigitChars[n + 1]>>
    ELSE FormatNat(n \div 10) \o <<DigitChars[(n % 10) + 1]>>

\* Display of an integer ("{}").
FormatInt(n) == IF n < 0 THEN <<"-">> \o FormatNat(0 - n) ELSE FormatNat(n)

\* Display of an f32 scale ("{}"); the model holds a scale in hundredths
\* (100 is 1.0, 150 is 1.5, 125 is 1.25).
FormatScale(s) ==
    LET whole == s \div 100
        frac == s % 100
    IN  IF frac = 0 THEN FormatNat(whole)
        ELSE IF frac % 10 = 0 THEN FormatNat(whole) \o <<".">> \o FormatNat(frac \div 10)
        ELSE FormatNat(whole) \o <<".", DigitChars[(frac \div 10) + 1],
                                   DigitChars[(frac % 10) + 1]>>

\* str::split(sep): the pieces of t between occurrences of the character sep.
RECURSIVE Split(_, _)
Split(t, sep) ==
    LET at == {i \in DOMAIN t : t[i] = sep}
    IN  IF at = {} THEN <<t>>
        ELSE <<SubSeq(t, 1, Min(at) - 1)>> \o Split(SubSeq(t, Min(at) + 1, Len(t)), sep)

I32Max == 2147483647

RECURSIVE DigitsValue(_)
DigitsValue(t) ==
    IF Len(t) = 0 THEN 0
    ELSE DigitsValue(SubSeq(t, 1, Len(t) - 1)) * 10 + DigitValue(t[Len(t)])

\* str::parse::<i32>(): an optional sign, then one or more ASCII digits, in range.
ParseI32(t) ==
    LET signed == Len(t) > 0 /\ t[1] \in {"+", "-"}
        digits == IF signed THEN Tail(t) ELSE t
    IN  IF Len(digits) = 0 \/ \E i \in DOMAIN digits : ~IsAsciiDigit(digits[i])
        THEN None
        ELSE LET v == IF signed /\ t[1] = "-" THEN 0 - DigitsValue(digits)
                      ELSE DigitsValue(digits)
             IN  IF v > I32Max \/ v < 0 - I32Max - 1 THEN None ELSE Some(v)

(***************************************************************************)
(* Text literals of the sources                                            *)
(***************************************************************************)
Auto == <<"a", "u", "t", "o">>
Normal == <<"n", "o", "r", "m", "a", "l">>
Left == <<"l", "e", "f", "t">>
Right == <<"r", "i", "g", "h", "t">>
Inverted == <<"i", "n", "v", "e", "r", "t", "e", "d">>
Disable == <<"d", "i", "s", "a", "b", "l", "e">>
Mirror == <<"m", "i", "r", "r", "o", "r">>
Origin == <<"0", "x", "0">>
Res1920x1080 == <<"1", "9", "2", "0", "x", "1", "0", "8", "0">>
Res2560x1440 == <<"2", "5", "6", "0", "x", "1", "4", "4", "0">>

(***************************************************************************)
(* Monitors (hyprland::data::Monitor: name, width, height, scale, focused) *)
(***************************************************************************)
DP1 == <<"D", "P", "-", "1">>
HDMI1 == <<"H", "D", "M", "I", "-", "1">>
DP1_DP1 == <<"D", "P", "-", "1", "_", "D", "P", "-", "1">>

MonitorNames == {DP1, HDMI1, DP1_DP1}

\* The native mode and scale each monitor reports.
NativeMode(name) ==
    IF name = DP1 THEN [width |-> 1920, height |-> 1080, scale |-> 100]
    ELSE IF name = HDMI1 THEN [width |-> 2560, height |-> 1440, scale |-> 150]
    ELSE [width |-> 3840, height |-> 2160, scale |-> 200]

Monitor(name, focused) ==
    [name |-> name, width |-> NativeMode(name).width, height |-> NativeMode(name).height,
     scale |-> NativeMode(name).scale, focused |-> focused]

\* Lists of distinct monitor names.
NameLists ==
    UNION {{s \in [1..n -> MonitorNames] : \A i, j \in 1..n : i # j => s[i] # s[j]} :
           n \in 0..Cardinality(MonitorNames)}

\* Inventories: monitors with distinct names, at most one of them focused.
Inventories ==
    UNION {{[i \in 1..Len(s) |-> Monitor(s[i], i = f)] : f \in 0..Len(s)} : s \in NameLists}

(***************************************************************************)
(* ExtendConfiguration                                                     *)
(***************************************************************************)
Layouts == {"LeftToRight", "RightToLeft", "TopToBottom", "BottomToTop"}

create_config_from_settings(primary_monitor, secondary_monitor, primary_resolution, primary_rotation, secondary_resolution, secondary_rotation, layout, utc_now) ==
    [name |-> primary_monitor \o <<" ", "+", " ">> \o secondary_monitor,
     primary_monitor |-> primary_monitor,
     primary_resolution |-> primary_resolution,
     primary_rotation |-> primary_rotation,
     secondary_monitor |-> secondary_monitor,
     secondary_resolution |-> secondary_resolution,
     secondary_rotation |-> secondary_rotation,
     layout |-> layout,
     created_at |-> utc_now,
     last_used |-> utc_now]

\* MonitorSettingsData::default(): the settings the host starts from.
DefaultSettings ==
    [primary_resolution |-> Auto, primary_rotation |-> Normal,
     secondary_resolution |-> Res1920x1080, secondary_rotation |-> Normal,
     layout |-> "LeftToRight"]

\* The settings a caller may put into a configuration.
SettingsChoices ==
    {DefaultSettings,
     [primary_resolution |-> Res2560x1440, primary_rotation |-> Left,
      secondary_resolution |-> Res2560x1440, secondary_rotation |-> Inverted,
      layout |-> "BottomToTop"]}

ConfigOf(p, s, set, utc_now) ==
    create_config_from_settings(p, s, set.primary_resolution, set.primary_rotation,
                                set.secondary_resolution, set.secondary_rotation,
                                set.layout, utc_now)

\* Configurations created at clock reading t.
ConfigInputs(t) ==
    {ConfigOf(p, s, set, t) : p \in MonitorNames, s \in MonitorNames, set \in SettingsChoices}

\* Configurations created at clock reading t as the host creates them: for two
\* different monitors, from the default settings.
HostConfigInputs(t) ==
    {ConfigOf(pair[1], pair[2], DefaultSettings, t) :
        pair \in {q \in MonitorNames \X MonitorNames : q[1] # q[2]}}

(***************************************************************************)
(* ConfigManager (src/config.rs)                                           *)
(***************************************************************************)
generate_config_key_PrimaryOnly(config) == config.primary_monitor

generate_config_key(config) ==
    config.primary_monitor \o <<"_">> \o config.secondary_monitor

\* HashMap::insert.
MapInsert(map, key, value) ==
    [k \in (DOMAIN map) \cup {key} |-> IF k = key THEN value ELSE map[k]]

\* The orders in which HashMap::values() may iterate over a map: any order of
\* its keys (the order is fixed while the map is not modified).
IterationOrders(map) ==
    {o \in [1..Cardinality(DOMAIN map) -> DOMAIN map] :
        \A i, j \in DOMAIN o : i # j => o[i] # o[j]}

Values(map, order) == [i \in DOMAIN order |-> map[order[i]]]

Contains(list, x) == \E i \in DOMAIN list : list[i] = x

RECURSIVE SortByLastUsedAsc(_)
SortByLastUsedAsc(s) ==
    IF Len(s) <= 1 THEN s
    ELSE LET init == SortByLastUsedAsc(SubSeq(s, 1, Len(s) - 1))
             x == s[Len(s)]
             keep == {i \in DOMAIN init : init[i].last_used <= x.last_used}
             k == IF keep = {} THEN 0 ELSE CHOOSE i \in keep : \A j \in keep : j <= i
         IN  SubSeq(init, 1, k) \o <<x>> \o SubSeq(init, k + 1, Len(init))

\* slice::sort_by(|a, b| b.last_used.cmp(&a.last_used)): stable, latest first.
RECURSIVE SortByLastUsedDesc(_)
SortByLastUsedDesc(s) ==
    IF Len(s) <= 1 THEN s
    ELSE LET init == SortByLastUsedDesc(SubSeq(s, 1, Len(s) - 1))
             x == s[Len(s)]
             \* x goes after every element that does not compare greater than it
             keep == {i \in DOMAIN init : init[i].last_used >= x.last_used}
             k == IF keep = {} THEN 0 ELSE CHOOSE i \in keep : \A j \in keep : j <= i
         IN  SubSeq(init, 1, k) \o <<x>> \o SubSeq(init, k + 1, Len(init))

MatchesAvailable_PrimaryOnly(config, available_monitors) ==
    Contains(available_monitors, config.primary_monitor)

MatchesAvailable(config, available_monitors) ==
    /\ Contains(available_monitors, config.primary_monitor)
    /\ Contains(available_monitors, config.secondary_monitor)

RECURSIVE FilterAvailable(_, _)
FilterAvailable(values, available_monitors) ==
    IF Len(values) = 0 THEN <<>>
    ELSE (IF MatchesAvailable(Head(values), available_monitors)
          THEN <<Head(values)>> ELSE <<>>)
         \o FilterAvailable(Tail(values), available_monitors)

get_extend_configuration_for_monitors(configs, order, available_monitors) ==
    LET matching_configs == FilterAvailable(Values(configs, order), available_monitors)
        sorted == SortByLastUsedDesc(matching_configs)
    IN  IF Len(sorted) = 0 THEN None ELSE Some(sorted[1])

MatchesPair_Ordered(config, primary, secondary) ==
    config.primary_monitor = primary /\ config.secondary_monitor = secondary

MatchesPair(config, primary, secondary) ==
    \/ (config.primary_monitor = primary /\ config.secondary_monitor = secondary)
    \/ (config.primary_monitor = secondary /\ config.secondary_monitor = primary)

get_extend_configuration_by_monitors(configs, order, primary, secondary) ==
    LET values == Values(configs, order)
        hits == {i \in DOMAIN values : MatchesPair(values[i], primary, secondary)}
    IN  IF hits = {} THEN None ELSE Some(values[Min(hits)])

get_last_extend_configuration_IgnorePointer(configs, last) ==
    IF DOMAIN configs = {} THEN None
    ELSE Some(configs[CHOOSE k \in DOMAIN configs : TRUE])

get_last_extend_configuration(configs, last) ==
    IF last = None THEN None
    ELSE IF last[1] \in DOMAIN configs THEN Some(configs[last[1]]) ELSE None

get_preferred_primary_monitor(configs, order, available_monitors) ==
    LET last_config == get_extend_configuration_for_monitors(configs, order, available_monitors)
    IN  IF last_config # None /\ Contains(available_monitors, last_config[1].primary_monitor)
        THEN Some(last_config[1].primary_monitor)
        ELSE None

StampLastUsed_Unstamped(config, utc_now) == config

\* The record save_extend_configuration stores for config at clock reading utc_now.
StampLastUsed(config, utc_now) == [config EXCEPT !.last_used = utc_now]

DisplayConfig(configs, last) ==
    [extend_configurations |-> configs, last_used_extend_config |-> last]

(***************************************************************************)
(* The persisted file: serde_json of DisplayConfig                         *)
(***************************************************************************)
\* A JSON value: null, a string, or an object, its members a function from the
\* member names to their values (the order of the members in the text is not
\* part of the value).
JsonNull == [kind |-> "null"]

JsonString(text) == [kind |-> "string", text |-> text]

JsonObject(members) == [kind |-> "object", members |-> members]

\* Content that is text but not a JSON text, as is every strict prefix of the
\* text of an object; and content that is not UTF-8.
NotJson == [kind |-> "not_json"]

NotUtf8 == [kind |-> "not_utf8"]

\* Serialize for ExtendConfiguration (derived): every field by its name; the
\* layout as the name of its variant, the two instants as text.
ExtendConfigurationToJson(config) ==
    JsonObject([name |-> JsonString(config.name),
                primary_monitor |-> JsonString(config.primary_monitor),
                primary_resolution |-> JsonString(config.primary_resolution),
                primary_rotation |-> JsonString(config.primary_rotation),
                secondary_monitor |-> JsonString(config.secondary_monitor),
                secondary_resolution |-> JsonString(config.secondary_resolution),
                secondary_rotation |-> JsonString(config.secondary_rotation),
                layout |-> JsonString(config.layout),
                created_at |-> JsonString(FormatNat(config.created_at)),
                last_used |-> JsonString(FormatNat(config.last_used))])

to_string_pretty_RecordsOnly(config) ==
    JsonObject([extend_configurations |->
                    JsonObject([k \in DOMAIN config.extend_configurations |->
                                   ExtendConfigurationToJson(config.extend_configurations[k])]),
                last_used_extend_config |-> JsonNull])

\* serde_json::to_string_pretty(&self.config): Serialize for DisplayConfig.
to_string_pretty(config) ==
    JsonObject([extend_configurations |->
                    JsonObject([k \in DOMAIN config.extend_configurations |->
                                   ExtendConfigurationToJson(config.extend_configurations[k])]),
                last_used_extend_config |->
                    IF config.last_used_extend_config = None THEN JsonNull
                    ELSE JsonString(config.last_used_extend_config[1])])

TextFields ==
    {"name", "primary_monitor", "primary_resolution", "primary_rotation",
     "secondary_monitor", "secondary_resolution", "secondary_rotation"}

TimeFields == {"created_at", "last_used"}

\* Whether Deserialize for ExtendConfiguration (derived) accepts the value: an
\* object with every field, of the field's type.
IsExtendConfigurationJson(value) ==
    /\ value.kind = "object"
    /\ (TextFields \cup TimeFields \cup {"layout"}) \subseteq DOMAIN value.members
    /\ \A f \in TextFields : value.members[f].kind = "string"
    /\ value.members.layout.kind = "string"
    /\ value.members.layout.text \in Layouts
    /\ \A f \in TimeFields :
          /\ value.members[f].kind = "string"
          /\ ParseI32(value.members[f].text) # None

ExtendConfigurationFromJson(value) ==
    [name |-> value.members.name.text,
     primary_monitor |-> value.members.primary_monitor.text,
     primary_resolution |-> value.members.primary_resolution.text,
     primary_rotation |-> value.members.primary_rotation.text,
     secondary_monitor |-> value.members.secondary_monitor.text,
     secondary_resolution |-> value.members.secondary_resolution.text,
     secondary_rotation |-> value.members.secondary_rotation.text,
     layout |-> value.members.layout.text,
     created_at |-> ParseI32(value.members.created_at.text)[1],
     last_used |-> ParseI32(value.members.last_used.text)[1]]

\* serde_json::from_str::<DisplayConfig>(&content): Some(config), or None for
\* the error. The map is required, the Option may be missing or null.
from_str(content) ==
    IF content.kind # "object" THEN None
    ELSE IF "extend_configurations" \notin DOMAIN content.members THEN None
    ELSE LET map == content.members.extend_configurations
             last == IF "last_used_extend_config" \in DOMAIN content.members
                     THEN content.members.last_used_extend_config
                     ELSE JsonNull
         IN  IF \/ map.kind # "object"
                \/ last.kind \notin {"null", "string"}
                \/ \E k \in DOMAIN map.members : ~IsExtendConfigurationJson(map.members[k])
             THEN None
             ELSE Some(DisplayConfig(
                      [k \in DOMAIN map.members |->
                          ExtendConfigurationFromJson(map.members[k])],
                      IF last.kind = "null" THEN None ELSE Some(last.text)))

\* What fs::write(&self.config_path, content) can do: replace the content; fail
\* to open the file, which keeps its content; or fail after the file was opened
\* and truncated, which leaves a strict prefix of the content in it.
WriteOutcomes == {"written", "not_opened", "cut_short"}

save_to_disk_Merging(config, content, write) ==
    LET on_disk == IF content = None THEN None ELSE from_str(content[1])
        kept == IF on_disk = None THEN <<>> ELSE on_disk[1].extend_configurations
        merged == [k \in DOMAIN kept \cup DOMAIN config.extend_configurations |->
                      IF k \in DOMAIN config.extend_configurations
                      THEN config.extend_configurations[k] ELSE kept[k]]
    IN  IF write = "written"
        THEN [file |-> Some(to_string_pretty(
                                DisplayConfig(merged, config.last_used_extend_config))),
              result |-> Ok]
        ELSE IF write = "not_opened" THEN [file |-> content, result |-> Err("io")]
        ELSE [file |-> Some(NotJson), result |-> Err("io")]

\* save_to_disk(), config being self.config and content the file's content
\* before the call: the content after it and the Result.
save_to_disk(config, content, write) ==
    IF write = "written" THEN [file |-> Some(to_string_pretty(config)), result |-> Ok]
    ELSE IF write = "not_opened" THEN [file |-> content, result |-> Err("io")]
    ELSE [file |-> Some(NotJson), result |-> Err("io")]

ConfigManager_new_ParseErrorFatal(content, dir_ok, read_ok) ==
    IF ~dir_ok THEN [result |-> Err("io"), config |-> DisplayConfig(<<>>, None)]
    ELSE IF content = None THEN [result |-> Ok, config |-> DisplayConfig(<<>>, None)]
    ELSE IF ~read_ok \/ content[1].kind = "not_utf8"
    THEN [result |-> Err("io"), config |-> DisplayConfig(<<>>, None)]
    ELSE LET parsed == from_str(content[1])
         IN  IF parsed = None
             THEN [result |-> Err("json"), config |-> DisplayConfig(<<>>, None)]
             ELSE [result |-> Ok, config |-> parsed[1]]

\* ConfigManager::new(), content being the content of config.json (None when
\* the file does not exist): the Result and, when Ok, self.config. dir_ok is
\* whether fs::create_dir_all succeeds, read_ok whether the file can be read;
\* fs::read_to_string also fails on content that is not UTF-8.
ConfigManager_new(content, dir_ok, read_ok) ==
    IF ~dir_ok THEN [result |-> Err("io"), config |-> DisplayConfig(<<>>, None)]
    ELSE IF content = None THEN [result |-> Ok, config |-> DisplayConfig(<<>>, None)]
    ELSE IF ~read_ok \/ content[1].kind = "not_utf8"
    THEN [result |-> Err("io"), config |-> DisplayConfig(<<>>, None)]
    ELSE LET parsed == from_str(content[1])
         IN  [result |-> Ok,
              config |-> IF parsed = None THEN DisplayConfig(<<>>, None) ELSE parsed[1]]

NoCall ==
    [op |-> "none", config |-> None, primary_only |-> FALSE, fail_at |-> 0,
     write |-> "written"]

\* save_extend_configuration(config); write is what fs::write does.
\* Each call reads chrono::Utc::now() once, and reads a later value than every
\* reading before it (the timestamps are those of a monotonic wall clock), so no
\* two records of a store that starts empty have the same last_used.
SaveExtendConfiguration(config, write) ==
    /\ pc = "running"
    /\ now < MaxTime
    /\ LET key == generate_config_key(config)
           updated_config == StampLastUsed(config, now + 1)
           configs == MapInsert(extend_configurations, key, updated_config)
           disk == save_to_disk(DisplayConfig(configs, Some(key)), file, write)
       IN  /\ now' = now + 1
           /\ extend_configurations' = configs
           /\ last_used_extend_config' = Some(key)
           /\ file' = disk.file
           /\ result' = disk.result
    /\ call' = [NoCall EXCEPT !.op = "save", !.config = Some(config), !.write = write]
    /\ issued' = <<>>
    /\ UNCHANGED <<monitors, pc, disk_vars, catalog_vars, host_vars>>

(***************************************************************************)
(* Specification of the store alone: saves on one ConfigManager that       *)
(* starts empty; the lookups are functions of its state.                   *)
(***************************************************************************)
InitStore ==
    /\ extend_configurations = <<>>
    /\ last_used_extend_config = None
    /\ file = None
    /\ now = 0

InitCall ==
    /\ call = NoCall
    /\ issued = <<>>
    /\ result = Ok
    /\ pc = "running"

\* No other process, no capability query.
InitAlone ==
    /\ procs = <<>>
    /\ query = None
    /\ available_modes = <<>>
    /\ host = None

StoreInit ==
    /\ InitStore
    /\ InitCall
    /\ InitAlone
    /\ monitors = <<>>

StoreSave == \E config \in ConfigInputs(now), write \in WriteOutcomes :
                SaveExtendConfiguration(config, write)

StoreNext == StoreSave

SpecStore == StoreInit /\ [][StoreNext]_vars

(***************************************************************************)
(* Display controller (src/display.rs)                                     *)
(***************************************************************************)
\* What an operation issues.  Exec(rule) is
\* Dispatch::call(DispatchType::Exec("hyprctl keyword monitor \"<rule>\"")).
Exec(rule) == [kind |-> "exec", rule |-> rule, ms |-> 0]
Sleep(ms) == [kind |-> "sleep", rule |-> <<>>, ms |-> ms]

SettleDelayMs == 1000

\* A sequence of `Dispatch::call(..).map_err(|e| e.to_string())?;` statements and
\* sleeps, where the fail_at-th Dispatch::call fails (none fails when fail_at = 0).
RunSteps_NoAbort(steps, fail_at) ==
    [issued |-> steps,
     result |-> IF fail_at \in 1..Cardinality({i \in DOMAIN steps : steps[i].kind = "exec"})
                THEN Err("dispatch") ELSE Ok]

RECURSIVE RunSteps(_, _)
RunSteps(steps, fail_at) ==
    IF Len(steps) = 0 THEN [issued |-> <<>>, result |-> Ok]
    ELSE LET step == Head(steps)
         IN  IF step.kind = "exec" /\ fail_at = 1
             THEN [issued |-> <<step>>, result |-> Err("dispatch")]
             ELSE LET rest == RunSteps(Tail(steps),
                                       IF step.kind = "exec" THEN fail_at - 1 ELSE fail_at)
                  IN  [issued |-> <<step>> \o rest.issued, result |-> rest.result]

Names(inventory) == [i \in DOMAIN inventory |-> inventory[i].name]

\* monitors.iter().find(|m| m.name == name)
FindByName(inventory, name) ==
    LET hits == {i \in DOMAIN inventory : inventory[i].name = name}
    IN  IF hits = {} THEN None ELSE Some(inventory[Min(hits)])

\* monitors.iter().find(|m| m.name != name)
FindOther(inventory, name) ==
    LET hits == {i \in DOMAIN inventory : inventory[i].name # name}
    IN  IF hits = {} THEN None ELSE Some(inventory[Min(hits)])

\* monitors.iter().find(|m| m.focused)
FindFocused(inventory) ==
    LET hits == {i \in DOMAIN inventory : inventory[i].focused}
    IN  IF hits = {} THEN None ELSE Some(inventory[Min(hits)])

determine_primary_monitor_FocusedFirst(inventory, configs, order) ==
    LET preferred_primary == get_preferred_primary_monitor(configs, order, Names(inventory))
    IN  IF FindFocused(inventory) # None THEN FindFocused(inventory)[1]
        ELSE IF preferred_primary # None /\ FindByName(inventory, preferred_primary[1]) # None
        THEN FindByName(inventory, preferred_primary[1])[1]
        ELSE inventory[1]

determine_primary_monitor(inventory, configs, order) ==
    LET monitor_names == Names(inventory)
        preferred_primary == get_preferred_primary_monitor(configs, order, monitor_names)
        monitor == IF preferred_primary = None THEN None
                   ELSE FindByName(inventory, preferred_primary[1])
    IN  IF preferred_primary # None /\ monitor # None THEN monitor[1]
        ELSE IF FindFocused(inventory) # None THEN FindFocused(inventory)[1]
        ELSE inventory[1]

determine_secondary_monitor(inventory, primary) == FindOther(inventory, primary.name)

\* "{},{}x{},0x0,{}"
GeometryRule(name, width, height, scale) ==
    name \o <<",">> \o FormatInt(width) \o <<"x">> \o FormatInt(height)
         \o <<",">> \o Origin \o <<",">> \o FormatScale(scale)

\* "{},{}x{},0x0,{},mirror,{}"
MirrorRule(name, width, height, scale, onto) ==
    GeometryRule(name, width, height, scale) \o <<",">> \o Mirror \o <<",">> \o onto

\* "{},disable"
DisableRule(name) == name \o <<",">> \o Disable

MirrorSteps_SecondaryNative(primary_mon, secondary_mon) ==
    <<Exec(GeometryRule(primary_mon.name, primary_mon.width, primary_mon.height,
                        primary_mon.scale)),
      Exec(MirrorRule(secondary_mon.name, secondary_mon.width, secondary_mon.height,
                      secondary_mon.scale, primary_mon.name))>>

MirrorSteps(primary_mon, secondary_mon) ==
    <<Exec(GeometryRule(primary_mon.name, primary_mon.width, primary_mon.height,
                        primary_mon.scale)),
      Exec(MirrorRule(secondary_mon.name, primary_mon.width, primary_mon.height,
                      primary_mon.scale, primary_mon.name))>>

apply_mirror_mode(inventory, configs, order, fail_at) ==
    IF Len(inventory) < 2 THEN [issued |-> <<>>, result |-> Ok]
    ELSE LET primary_mon == determine_primary_monitor(inventory, configs, order)
             secondary_mon == FindOther(inventory, primary_mon.name)
         IN  IF secondary_mon = None
             THEN [issued |-> <<>>, result |-> Err("Secondary monitor not found")]
             ELSE RunSteps(MirrorSteps(primary_mon, secondary_mon[1]), fail_at)

SingleScreenSteps_DisableFirst(active_mon, inactive_mon) ==
    <<Exec(DisableRule(inactive_mon.name)),
      Exec(GeometryRule(active_mon.name, active_mon.width, active_mon.height,
                        active_mon.scale))>>

SingleScreenSteps(active_mon, inactive_mon) ==
    <<Exec(GeometryRule(active_mon.name, active_mon.width, active_mon.height,
                        active_mon.scale)),
      Exec(DisableRule(inactive_mon.name))>>

apply_single_screen_mode(inventory, primary_only, configs, order, fail_at) ==
    IF Len(inventory) < 2 THEN [issued |-> <<>>, result |-> Ok]
    ELSE LET primary_monitor == determine_primary_monitor(inventory, configs, order)
             secondary_monitor == determine_secondary_monitor(inventory, primary_monitor)
         IN  IF secondary_monitor = None
             THEN [issued |-> <<>>, result |-> Err("Secondary monitor not found")]
             ELSE LET active_mon == IF primary_only THEN primary_monitor
                                    ELSE secondary_monitor[1]
                      inactive_mon == IF primary_only THEN secondary_monitor[1]
                                      ELSE primary_monitor
                  IN  RunSteps(SingleScreenSteps(active_mon, inactive_mon), fail_at)

UnwrapOr(option, default) == IF option = None THEN default ELSE option[1]

\* secondary_resolution.split('x').next().unwrap_or("1920").parse::<i32>().unwrap_or(1920)
ParseWidth(resolution) ==
    UnwrapOr(ParseI32(Split(resolution, "x")[1]), 1920)

\* secondary_resolution.split('x').nth(1).unwrap_or("1080").parse::<i32>().unwrap_or(1080)
ParseHeight(resolution) ==
    LET pieces == Split(resolution, "x")
    IN  UnwrapOr(ParseI32(IF Len(pieces) >= 2 THEN pieces[2] ELSE <<"1", "0", "8", "0">>),
                 1080)

calculate_positions_PrimaryAtOrigin(layout, primary_width, primary_height, secondary_resolution) ==
    IF layout \in {"LeftToRight", "RightToLeft"}
    THEN <<Origin, FormatInt(primary_width) \o <<"x", "0">> >>
    ELSE <<Origin, <<"0", "x">> \o FormatInt(primary_height)>>

\* (primary_pos, secondary_pos)
calculate_positions(layout, primary_width, primary_height, secondary_resolution) ==
    CASE layout = "LeftToRight" ->
            <<Origin, FormatInt(primary_width) \o <<"x", "0">> >>
      [] layout = "RightToLeft" ->
            <<FormatInt(ParseWidth(secondary_resolution)) \o <<"x", "0">>, Origin>>
      [] layout = "TopToBottom" ->
            <<Origin, <<"0", "x">> \o FormatInt(primary_height)>>
      [] layout = "BottomToTop" ->
            <<<<"0", "x">> \o FormatInt(ParseHeight(secondary_resolution)), Origin>>

TransformPrefix == <<",", "t", "r", "a", "n", "s", "f", "o", "r", "m", ",">>

get_transform_string_RightIsTwo(rotation) ==
    IF rotation = Left THEN TransformPrefix \o <<"1">>
    ELSE IF rotation = Right THEN TransformPrefix \o <<"2">>
    ELSE IF rotation = Inverted THEN TransformPrefix \o <<"3">>
    ELSE <<>>

get_transform_string(rotation) ==
    IF rotation = Left THEN TransformPrefix \o <<"1">>
    ELSE IF rotation = Right THEN TransformPrefix \o <<"3">>
    ELSE IF rotation = Inverted THEN TransformPrefix \o <<"2">>
    ELSE <<>>

\* primary_command: "{},{}{}" with "auto,{primary_pos},1" or "{},{},1"
PrimaryRule(config, primary_pos) ==
    config.primary_monitor \o <<",">>
        \o (IF config.primary_resolution = Auto
            THEN Auto \o <<",">> \o primary_pos \o <<",", "1">>
            ELSE config.primary_resolution \o <<",">> \o primary_pos \o <<",", "1">>)
        \o get_transform_string(config.primary_rotation)

\* secondary_command: "{},{},{},1{}"
SecondaryRule(config, secondary_pos) ==
    config.secondary_monitor \o <<",">> \o config.secondary_resolution \o <<",">>
        \o secondary_pos \o <<",", "1">> \o get_transform_string(config.secondary_rotation)

PrimaryDimensions_Native(primary_monitor, config) ==
    [width |-> primary_monitor.width, height |-> primary_monitor.height]

\* The width and height apply_extend_mode positions the monitors with.
PrimaryDimensions(primary_monitor, config) ==
    LET primary_resolution ==
            IF config.primary_resolution = Auto
            THEN FormatInt(primary_monitor.width) \o <<"x">> \o FormatInt(primary_monitor.height)
            ELSE config.primary_resolution
    IN  [width |-> IF config.primary_resolution = Auto THEN primary_monitor.width
                   ELSE ParseWidth(primary_resolution),
         height |-> IF config.primary_resolution = Auto THEN primary_monitor.height
                    ELSE ParseHeight(primary_resolution)]

\* <<primary_command, secondary_command>>
ExtendRules(primary_monitor, config) ==
    LET dims == PrimaryDimensions(primary_monitor, config)
        positions == calculate_positions(config.layout, dims.width, dims.height,
                                         config.secondary_resolution)
    IN  <<PrimaryRule(config, positions[1]), SecondaryRule(config, positions[2])>>

ExtendSteps_ApplyBeforeSettling(config, primary_command, secondary_command) ==
    <<Exec(DisableRule(config.primary_monitor)),
      Exec(DisableRule(config.secondary_monitor)),
      Exec(primary_command),
      Sleep(SettleDelayMs),
      Exec(secondary_command)>>

ExtendSteps(config, primary_command, secondary_command) ==
    <<Exec(DisableRule(config.primary_monitor)),
      Exec(DisableRule(config.secondary_monitor)),
      Sleep(SettleDelayMs),
      Exec(primary_command),
      Exec(secondary_command)>>

ExtendLookupError_PrimaryOnly(inventory, config) ==
    IF FindByName(inventory, config.primary_monitor) = None
    THEN Some("Primary monitor not found")
    ELSE None

\* The error of the two monitor lookups by name, if any.
ExtendLookupError(inventory, config) ==
    IF FindByName(inventory, config.primary_monitor) = None
    THEN Some("Primary monitor not found")
    ELSE IF FindByName(inventory, config.secondary_monitor) = None
    THEN Some("Secondary monitor not found")
    ELSE None

\* apply_extend_mode after its check of the number of monitors.
ExtendWithTwoMonitors(inventory, config, fail_at) ==
    IF ExtendLookupError(inventory, config) # None
    THEN [issued |-> <<>>, result |-> Err(ExtendLookupError(inventory, config)[1])]
    ELSE LET primary_monitor == FindByName(inventory, config.primary_monitor)[1]
             rules == ExtendRules(primary_monitor, config)
         IN  RunSteps(ExtendSteps(config, rules[1], rules[2]), fail_at)

apply_extend_mode_Unguarded(inventory, config, fail_at) ==
    ExtendWithTwoMonitors(inventory, config, fail_at)

apply_extend_mode(inventory, config, fail_at) ==
    IF Len(inventory) < 2 THEN [issued |-> <<>>, result |-> Ok]
    ELSE ExtendWithTwoMonitors(inventory, config, fail_at)

(***************************************************************************)
(* The operations of the controller as the host calls them                 *)
(* (DisplaySwitcher::update): one apply operation, then process::exit(0).  *)
(***************************************************************************)
\* fail_at is the outcome of the commands: which Dispatch::call fails, if any.
ApplyMirrorMode ==
    /\ pc = "running"
    /\ \E fail_at \in 0..2 :
          /\ \E order \in IterationOrders(extend_configurations) :
                LET out == apply_mirror_mode(monitors, extend_configurations, order, fail_at)
                IN  issued' = out.issued /\ result' = out.result
          /\ call' = [NoCall EXCEPT !.op = "mirror", !.fail_at = fail_at]
    /\ pc' = "exited"
    /\ UNCHANGED <<store_vars, monitors, disk_vars, catalog_vars, host_vars>>

ApplySingleScreenMode ==
    /\ pc = "running"
    /\ \E primary_only \in BOOLEAN, fail_at \in 0..2 :
          /\ \E order \in IterationOrders(extend_configurations) :
                LET out == apply_single_screen_mode(monitors, primary_only,
                                                    extend_configurations, order, fail_at)
                IN  issued' = out.issued /\ result' = out.result
          /\ call' = [NoCall EXCEPT !.op = "single", !.primary_only = primary_only,
                                    !.fail_at = fail_at]
    /\ pc' = "exited"
    /\ UNCHANGED <<store_vars, monitors, disk_vars, catalog_vars, host_vars>>

ApplyExtendMode ==
    /\ pc = "running"
    /\ \E config \in HostConfigInputs(now), fail_at \in 0..4 :
          /\ LET out == apply_extend_mode(monitors, config, fail_at)
             IN  issued' = out.issued /\ result' = out.result
          /\ call' = [NoCall EXCEPT !.op = "extend", !.config = Some(config),
                                    !.fail_at = fail_at]
    /\ pc' = "exited"
    /\ UNCHANGED <<store_vars, monitors, disk_vars, catalog_vars, host_vars>>

\* The saves that fill the store the apply operations read: the configurations
\* the host creates, written to a writable disk (SpecStore has every
\* configuration and the failing write).
Save == \E config \in HostConfigInputs(now) : SaveExtendConfiguration(config, "written")

Init ==
    /\ InitStore
    /\ InitCall
    /\ InitAlone
    /\ monitors \in Inventories

Next == Save \/ ApplyMirrorMode \/ ApplySingleScreenMode \/ ApplyExtendMode

Spec == Init /\ [][Next]_vars

(***************************************************************************)
(* Specification of extend mode over the settings a configuration can      *)
(* hold: one call of calculate_positions or of apply_extend_mode on two     *)
(* monitors.                                                               *)
(***************************************************************************)
Flipped == <<"f", "l", "i", "p", "p", "e", "d">>
Res1280x == <<"1", "2", "8", "0", "x">>
Resx720 == <<"x", "7", "2", "0">>
Res1280 == <<"1", "2", "8", "0">>

\* What a resolution field can hold: auto, a resolution, and text that is not
\* one (no height, no width, no separator).
ResolutionTexts == {Auto, Res1920x1080, Res2560x1440, Res1280x, Resx720, Res1280}

\* What a rotation field can hold: the four rotations and a text that is none.
RotationTexts == {Normal, Left, Right, Inverted, Flipped}

\* The configurations of two of the monitors DP-1 and HDMI-1.
ExtendConfigInputs ==
    {create_config_from_settings(pair[1], pair[2], pres, prot, sres, srot, layout, 0) :
        pair \in {<<DP1, HDMI1>>, <<HDMI1, DP1>>},
        pres \in ResolutionTexts, prot \in RotationTexts,
        sres \in ResolutionTexts \ {Resx720}, srot \in RotationTexts \ {Flipped},
        layout \in Layouts}

ExtendInventories ==
    {<<Monitor(DP1, TRUE), Monitor(HDMI1, FALSE)>>,
     <<Monitor(HDMI1, FALSE), Monitor(DP1, FALSE)>>}

PositionsNoCall ==
    [op |-> "none", layout |-> "LeftToRight", primary_width |-> 0, primary_height |-> 0,
     secondary_resolution |-> <<>>]

\* calculate_positions(layout, primary_width, primary_height, secondary_resolution).
CalculatePositions ==
    /\ call.op = "none"
    /\ \E layout \in Layouts, primary_width \in {1280, 1920, 2560},
          primary_height \in {720, 1080, 1440}, secondary_resolution \in ResolutionTexts :
          /\ call' = [PositionsNoCall EXCEPT !.op = "positions", !.layout = layout,
                                             !.primary_width = primary_width,
                                             !.primary_height = primary_height,
                                             !.secondary_resolution = secondary_resolution]
          /\ result' = [ok |-> TRUE, err |-> "",
                        positions |-> calculate_positions(layout, primary_width,
                                                          primary_height,
                                                          secondary_resolution)]
    /\ UNCHANGED <<store_vars, monitors, issued, pc, disk_vars, catalog_vars, host_vars>>

\* apply_extend_mode(monitors, config), every command succeeding or the last failing.
ApplyExtendConfig ==
    /\ call.op = "none"
    /\ \E config \in ExtendConfigInputs, fail_at \in {0, 4} :
          /\ LET out == apply_extend_mode(monitors, config, fail_at)
             IN  issued' = out.issued /\ result' = out.result
          /\ call' = [NoCall EXCEPT !.op = "extend", !.config = Some(config),
                                    !.fail_at = fail_at]
    /\ UNCHANGED <<store_vars, monitors, pc, disk_vars, catalog_vars, host_vars>>

ExtendInit ==
    /\ InitStore
    /\ InitCall
    /\ InitAlone
    /\ monitors \in ExtendInventories

ExtendNext == CalculatePositions \/ ApplyExtendConfig

SpecExtend == ExtendInit /\ [][ExtendNext]_vars

(***************************************************************************)
(* Specification of the processes that share config.json: each one starts  *)
(* with ConfigManager::new() and then saves; nothing serializes them.      *)
(***************************************************************************)
ProcIds == {1, 2}

\* A process before ConfigManager::new().
NotStarted ==
    [pc |-> "start", extend_configurations |-> <<>>, last_used_extend_config |-> None,
     result |-> Ok]

\* A record saved by an earlier run.
StoredBefore == ConfigOf(DP1, HDMI1, DefaultSettings, 0)

\* What config.json can hold when the processes start: nothing (no file);
\* content that is not UTF-8; text that is not JSON; JSON that is not a store
\* (null, an object without the map); the store of an earlier run, empty, with
\* one record, or with a pointer whose key is not in it.
DiskFiles ==
    {None, Some(NotUtf8), Some(NotJson), Some(JsonNull),
     Some(JsonObject([monitors |-> JsonNull])),
     Some(to_string_pretty(DisplayConfig(<<>>, None))),
     Some(to_string_pretty(DisplayConfig(<<>>, Some(generate_config_key(StoredBefore))))),
     Some(to_string_pretty(DisplayConfig(
              MapInsert(<<>>, generate_config_key(StoredBefore), StoredBefore),
              Some(generate_config_key(StoredBefore)))))}

DiskNoCall ==
    [op |-> "none", proc |-> 0, config |-> None, write |-> "written",
     dir_ok |-> TRUE, read_ok |-> TRUE]

\* Process p starts: ConfigManager::new(). The directory can fail to be created
\* only when the file is not there; the read can fail only when it is. A process
\* whose ConfigManager::new() failed shows the error and saves nothing.
ProcNew(p) ==
    /\ procs[p].pc = "start"
    /\ \E dir_ok \in BOOLEAN, read_ok \in BOOLEAN :
          /\ ~dir_ok => (file = None /\ read_ok)
          /\ ~read_ok => file # None
          /\ LET out == ConfigManager_new(file, dir_ok, read_ok)
             IN  /\ procs' = [procs EXCEPT ![p] =
                        [pc |-> IF out.result.ok THEN "running" ELSE "failed",
                         extend_configurations |-> out.config.extend_configurations,
                         last_used_extend_config |-> out.config.last_used_extend_config,
                         result |-> out.result]]
                 /\ result' = out.result
          /\ call' = [DiskNoCall EXCEPT !.op = "new", !.proc = p, !.dir_ok = dir_ok,
                                        !.read_ok = read_ok]
    /\ UNCHANGED <<extend_configurations, last_used_extend_config, file, now, monitors,
                   issued, pc, catalog_vars, host_vars>>

\* Process p calls save_extend_configuration(config) on its ConfigManager.
ProcSave(p) ==
    /\ procs[p].pc = "running"
    /\ now < MaxTime
    /\ \E config \in HostConfigInputs(now), write \in WriteOutcomes :
          /\ LET key == generate_config_key(config)
                 updated_config == StampLastUsed(config, now + 1)
                 configs == MapInsert(procs[p].extend_configurations, key, updated_config)
                 disk == save_to_disk(DisplayConfig(configs, Some(key)), file, write)
             IN  /\ now' = now + 1
                 /\ procs' = [procs EXCEPT ![p] =
                        [pc |-> "running",
                         extend_configurations |-> configs,
                         last_used_extend_config |-> Some(key),
                         result |-> disk.result]]
                 /\ file' = disk.file
                 /\ result' = disk.result
          /\ call' = [DiskNoCall EXCEPT !.op = "save", !.proc = p,
                                        !.config = Some(config), !.write = write]
    /\ UNCHANGED <<extend_configurations, last_used_extend_config, monitors, issued, pc,
                   catalog_vars, host_vars>>

DiskInit ==
    /\ file \in DiskFiles
    /\ procs = [p \in ProcIds |-> NotStarted]
    /\ now = 0
    /\ extend_configurations = <<>>
    /\ last_used_extend_config = None
    /\ monitors = <<>>
    /\ call = DiskNoCall
    /\ issued = <<>>
    /\ result = Ok
    /\ pc = "running"
    /\ query = None
    /\ available_modes = <<>>
    /\ host = None

DiskNext == \E p \in ProcIds : ProcNew(p) \/ ProcSave(p)

SpecDisk == DiskInit /\ [][DiskNext]_vars

(***************************************************************************)
(* Mode catalog (src/display.rs): get_monitor_available_modes              *)
(***************************************************************************)
Max(S) == CHOOSE i \in S : \A j \in S : j <= i

\* char::is_whitespace, for the characters of the capability text.
IsWhitespace(c) == c \in {" ", "\t", "\n", "\r"}

\* str::trim.
Trim(t) ==
    LET keep == {i \in DOMAIN t : ~IsWhitespace(t[i])}
    IN  IF keep = {} THEN <<>> ELSE SubSeq(t, Min(keep), Max(keep))

\* str::starts_with.
StartsWith(t, prefix) ==
    Len(t) >= Len(prefix) /\ SubSeq(t, 1, Len(prefix)) = prefix

\* str::strip_prefix(prefix).unwrap_or("").
StripPrefix(t, prefix) ==
    IF StartsWith(t, prefix) THEN SubSeq(t, Len(prefix) + 1, Len(t)) ELSE <<>>

\* A line without the carriage return that ends it.
StripCr(line) ==
    IF Len(line) > 0 /\ line[Len(line)] = "\r" THEN SubSeq(line, 1, Len(line) - 1)
    ELSE line

\* str::lines: the lines of t, ended by a line feed or by the end of the text;
\* no last empty line.
Lines(t) ==
    LET pieces == Split(t, "\n")
        kept == IF pieces[Len(pieces)] = <<>> THEN SubSeq(pieces, 1, Len(pieces) - 1)
                ELSE pieces
    IN  [i \in DOMAIN kept |-> StripCr(kept[i])]

\* str::split_whitespace: the maximal runs of characters that are not whitespace.
RECURSIVE SplitWhitespace(_)
SplitWhitespace(t) ==
    LET keep == {i \in DOMAIN t : ~IsWhitespace(t[i])}
    IN  IF keep = {} THEN <<>>
        ELSE LET first == Min(keep)
                 gaps == {i \in DOMAIN t : i > first /\ IsWhitespace(t[i])}
                 last == IF gaps = {} THEN Len(t) ELSE Min(gaps) - 1
             IN  <<SubSeq(t, first, last)>> \o SplitWhitespace(SubSeq(t, last + 1, Len(t)))

MonitorPrefix == <<"M", "o", "n", "i", "t", "o", "r", " ">>

AvailableModesPrefix == <<"a", "v", "a", "i", "l", "a", "b", "l", "e", "M", "o", "d", "e", "s", ":">>

Res3840x2160 == <<"3", "8", "4", "0", "x", "2", "1", "6", "0">>
Res1680x1050 == <<"1", "6", "8", "0", "x", "1", "0", "5", "0">>
Res1366x768 == <<"1", "3", "6", "6", "x", "7", "6", "8">>
Res1440x900 == <<"1", "4", "4", "0", "x", "9", "0", "0">>

\* The list get_monitor_available_modes returns when the query fails.
QueryFallback ==
    <<Res1920x1080, Res2560x1440, Res3840x2160, Res1680x1050, Res1366x768, Res1440x900>>

\* The list parse_monitor_modes returns when it found no mode.
ParseFallback == <<Res1920x1080, Res2560x1440, Res3840x2160>>

extract_resolution_from_line(line) ==
    LET ats == {i \in DOMAIN line : line[i] = "@"}
    IN  IF ats = {} THEN None
        ELSE LET before_at == SubSeq(line, 1, Min(ats) - 1)
             IN  IF ~\E i \in DOMAIN before_at : before_at[i] = "x" THEN None
                 ELSE LET resolution_part == Trim(before_at)
                          digits == {i \in DOMAIN resolution_part :
                                        IsAsciiDigit(resolution_part[i])}
                          start == IF digits = {} THEN 1 ELSE Min(digits)
                          resolution == SubSeq(resolution_part, start,
                                               Len(resolution_part))
                      IN  IF /\ \E i \in DOMAIN resolution : resolution[i] = "x"
                             /\ \A i \in DOMAIN resolution :
                                   IsAsciiDigit(resolution[i]) \/ resolution[i] = "x"
                          THEN Some(resolution)
                          ELSE None

RECURSIVE PushModes_KeepRepeats(_, _)
PushModes_KeepRepeats(modes, tokens) ==
    IF Len(tokens) = 0 THEN modes
    ELSE LET resolution == extract_resolution_from_line(Head(tokens))
         IN  PushModes_KeepRepeats(
                 IF resolution # None THEN Append(modes, resolution[1]) ELSE modes,
                 Tail(tokens))

\* The loop over modes_str.split_whitespace(): each token's resolution, if it
\* has one that modes does not contain yet, is pushed onto modes.
RECURSIVE PushModes(_, _)
PushModes(modes, tokens) ==
    IF Len(tokens) = 0 THEN modes
    ELSE LET resolution == extract_resolution_from_line(Head(tokens))
         IN  PushModes(IF resolution # None /\ ~Contains(modes, resolution[1])
                       THEN Append(modes, resolution[1]) ELSE modes,
                       Tail(tokens))

\* The loop over output.lines() up to its break: the trimmed availableModes
\* line it stops at, or None when it ends at another monitor's header or at the
\* end of the text.
RECURSIVE ModesLine(_, _, _)
ModesLine(lines, target_monitor, in_target_monitor) ==
    IF Len(lines) = 0 THEN None
    ELSE LET trimmed == Trim(Head(lines))
         IN  IF StartsWith(trimmed, MonitorPrefix \o target_monitor)
             THEN ModesLine(Tail(lines), target_monitor, TRUE)
             ELSE IF in_target_monitor /\ StartsWith(trimmed, MonitorPrefix)
             THEN None
             ELSE IF in_target_monitor /\ StartsWith(trimmed, AvailableModesPrefix)
             THEN Some(trimmed)
             ELSE ModesLine(Tail(lines), target_monitor, in_target_monitor)

\* modes as parse_monitor_modes has it after the loop, before the fallback.
ScannedModes(output, target_monitor) ==
    LET line == ModesLine(Lines(output), target_monitor, FALSE)
    IN  IF line = None THEN <<>>
        ELSE LET modes_str == Trim(StripPrefix(line[1], AvailableModesPrefix))
             IN  PushModes(<<>>, SplitWhitespace(modes_str))

parse_monitor_modes_NoFallback(output, target_monitor) ==
    ScannedModes(output, target_monitor)

parse_monitor_modes(output, target_monitor) ==
    LET modes == ScannedModes(output, target_monitor)
    IN  IF Len(modes) = 0 THEN ParseFallback ELSE modes

\* get_monitor_available_modes(monitor_name): success is whether hyprctl ran and
\* exited with success, stdout what it wrote.
get_monitor_available_modes(monitor_name, success, stdout) ==
    IF success THEN parse_monitor_modes(stdout, monitor_name) ELSE QueryFallback

(***************************************************************************)
(* Specification of the mode catalog: a capability text and a monitor name, *)
(* and the calls of get_monitor_available_modes on them.                   *)
(***************************************************************************)
\* The longest capability text has MaxLines lines.
MaxLines == 3

\* The lines of the capability texts: the headers of three monitors, lines of
\* modes (with a repeated resolution; with one mode; with no token that is a
\* mode; with tokens of digits and x that are no width and height), and a line
\* of another key.
CapabilityLines ==
    {<<"M", "o", "n", "i", "t", "o", "r", " ", "D", "P", "-", "1", " ", "(", "I", "D",
           " ", "0", ")", ":">>,
     <<"M", "o", "n", "i", "t", "o", "r", " ", "D", "P", "-", "1", "0", " ", "(", "I",
           "D", " ", "1", ")", ":">>,
     <<"M", "o", "n", "i", "t", "o", "r", " ", "H", "D", "M", "I", "-", "1", " ", "(",
           "I", "D", " ", "2", ")", ":">>,
     <<"\t", "a", "v", "a", "i", "l", "a", "b", "l", "e", "M", "o", "d", "e", "s", ":",
           " ", "1", "9", "2", "0", "x", "1", "0", "8", "0", "@", "6", "0", "H", "z",
           " ", "1", "2", "8", "0", "x", "7", "2", "0", "@", "6", "0", "H", "z", " ",
           "1", "9", "2", "0", "x", "1", "0", "8", "0", "@", "5", "0", "H", "z">>,
     <<"\t", "a", "v", "a", "i", "l", "a", "b", "l", "e", "M", "o", "d", "e", "s", ":",
           " ", "2", "5", "6", "0", "x", "1", "4", "4", "0", "@", "1", "4", "4", "H", "z">>,
     <<"\t", "a", "v", "a", "i", "l", "a", "b", "l", "e", "M", "o", "d", "e", "s", ":",
           " ", "a", "u", "t", "o", " ", "1", "0", "8", "0", "p", "@", "6", "0", "H", "z">>,
     <<"\t", "a", "v", "a", "i", "l", "a", "b", "l", "e", "M", "o", "d", "e", "s", ":",
           " ", "1", "9", "2", "0", "x", "@", "6", "0", "H", "z", " ", "1", "x", "2", "x",
           "3", "@", "3", "0", "H", "z">>,
     <<"\t", "d", "p", "m", "s", "S", "t", "a", "t", "u", "s", ":", " ", "1">>}

\* The texts of at most MaxLines lines, each line ended by a line feed.
RECURSIVE JoinLines(_)
JoinLines(lines) ==
    IF Len(lines) = 0 THEN <<>>
    ELSE Head(lines) \o <<"\n">> \o JoinLines(Tail(lines))

CapabilityTexts ==
    UNION {{JoinLines(ls) : ls \in [1..n -> CapabilityLines]} : n \in 0..MaxLines}

Queries ==
    {[monitor_name |-> name, stdout |-> text] :
        name \in {DP1, HDMI1}, text \in CapabilityTexts}

ModesNoCall == [op |-> "none", success |-> FALSE]

GetMonitorAvailableModes ==
    /\ query # None
    /\ \E success \in BOOLEAN :
          /\ available_modes' = get_monitor_available_modes(query[1].monitor_name,
                                                            success, query[1].stdout)
          /\ call' = [ModesNoCall EXCEPT !.op = "modes", !.success = success]
    /\ UNCHANGED <<store_vars, monitors, issued, result, pc, disk_vars, query, host_vars>>

ModesInit ==
    /\ InitStore
    /\ monitors = <<>>
    /\ issued = <<>>
    /\ result = Ok
    /\ pc = "running"
    /\ procs = <<>>
    /\ call = ModesNoCall
    /\ query \in {Some(q) : q \in Queries}
    /\ available_modes = <<>>
    /\ host = None

ModesNext == GetMonitorAvailableModes

SpecModes == ModesInit /\ [][ModesNext]_vars

(***************************************************************************)
(* The host application (src/main.rs, DisplaySwitcher::update): one run of *)
(* the process on a store loaded from an earlier run.  monitors is what     *)
(* Monitors::get() reports, and what State::Loaded and                     *)
(* State::MonitorSettings hold once it is loaded; host is the variant of   *)
(* State and the settings of State::MonitorSettings.                       *)
(***************************************************************************)
\* process::exit(0): the position of the process after it.
process_exit_Returns(position) == position

process_exit(position) == "exited"

\* The write of config.json, in the order of what a handler does.
WriteFile == [kind |-> "write", rule |-> <<>>, ms |-> 0]

\* reset_to_defaults(): Dispatch::call(Exec("hyprctl reload")).
reset_to_defaults(fail_at) ==
    [issued |-> <<[kind |-> "reload", rule |-> <<"h", "y", "p", "r", "c", "t", "l", " ", "r", "e", "l", "o", "a", "d">>, ms |-> 0]>>,
     result |-> IF fail_at = 1 THEN Err("dispatch") ELSE Ok]

\* What hyprctl monitors all prints for DP-1 and HDMI-1.
HostCapabilityText ==
    JoinLines(<<MonitorPrefix \o DP1 \o <<" ", "(", "I", "D", " ", "0", ")", ":">>,
                <<"\t">> \o AvailableModesPrefix \o <<" ">> \o Res2560x1440
                    \o <<"@", "6", "0", "H", "z", " ">> \o Res1920x1080 \o <<"@", "6", "0", "H", "z">>,
                MonitorPrefix \o HDMI1 \o <<" ", "(", "I", "D", " ", "1", ")", ":">>,
                <<"\t">> \o AvailableModesPrefix \o <<" ">> \o Res1920x1080
                    \o <<"@", "3", "0", "H", "z">> >>)

\* The outcomes of the hyprctl query of get_monitor_available_modes.
ModeQueries ==
    {[success |-> FALSE, stdout |-> <<>>], [success |-> TRUE, stdout |-> HostCapabilityText]}

\* What Monitors::get() reports: one, two or three monitors.
HostInventories ==
    ExtendInventories
        \cup {<<Monitor(DP1, TRUE)>>,
              <<Monitor(DP1, FALSE), Monitor(HDMI1, TRUE), Monitor(DP1_DP1, FALSE)>>}

\* The stores of earlier runs, saved at the clock readings 0 and 1: empty; a
\* record of (DP-1, HDMI-1); a record of (DP-1, DP-1_DP-1); a record of
\* (HDMI-1, DP-1) and a later one of (DP-1, DP-1_DP-1).
HostStores ==
    LET dp_hdmi == ConfigOf(DP1, HDMI1, CHOOSE s \in SettingsChoices : s # DefaultSettings, 1)
        hdmi_dp == ConfigOf(HDMI1, DP1, DefaultSettings, 0)
        dp_other == ConfigOf(DP1, DP1_DP1, DefaultSettings, 1)
    IN  {DisplayConfig(<<>>, None),
         DisplayConfig(MapInsert(<<>>, generate_config_key(dp_hdmi), dp_hdmi),
                       Some(generate_config_key(dp_hdmi))),
         DisplayConfig(MapInsert(<<>>, generate_config_key(dp_other), dp_other),
                       Some(generate_config_key(dp_other))),
         DisplayConfig(MapInsert(MapInsert(<<>>, generate_config_key(hdmi_dp), hdmi_dp),
                                 generate_config_key(dp_other), dp_other),
                       Some(generate_config_key(dp_other)))}

HostNoCall ==
    [op |-> "none", mode |-> "Mirror", config |-> None, fail_at |-> 0, write |-> "written",
     saved |-> Ok]

\* The configuration Message::SetMode(Extend) hands to apply_extend_mode: the
\* saved one for the monitors, or the default one of the first two monitors;
\* None when there is neither.
ExtendModeConfig(inventory, configs, order, utc_now) ==
    LET saved_config == get_extend_configuration_for_monitors(configs, order, Names(inventory))
    IN  IF saved_config # None THEN saved_config
        ELSE IF Len(inventory) >= 2
        THEN Some(create_config_from_settings(
                      inventory[1].name, inventory[2].name,
                      FormatInt(inventory[1].width) \o <<"x">> \o FormatInt(inventory[1].height),
                      Normal,
                      FormatInt(inventory[2].width) \o <<"x">> \o FormatInt(inventory[2].height),
                      Normal, "LeftToRight", utc_now))
        ELSE None

\* apply_extend_mode of the configuration of Message::SetMode(Extend), or
\* Ok(()) when there is none.
ApplyExtendModeConfig(inventory, config, fail_at) ==
    IF config = None THEN [config |-> None, issued |-> <<>>, result |-> Ok]
    ELSE apply_extend_mode(inventory, config[1], fail_at) @@ [config |-> config]

\* Message::SetMode(mode) in the State variant state: what it issues, its
\* result, and the configuration of extend mode.
SetModeOutcome(state, inventory, mode, configs, order, utc_now, fail_at) ==
    IF state # "Loaded" THEN [config |-> None, issued |-> <<>>, result |-> Ok]
    ELSE IF mode = "Mirror"
    THEN apply_mirror_mode(inventory, configs, order, fail_at) @@ [config |-> None]
    ELSE IF mode = "Extend"
    THEN ApplyExtendModeConfig(inventory,
                               ExtendModeConfig(inventory, configs, order, utc_now), fail_at)
    ELSE apply_single_screen_mode(inventory, mode = "MainScreenOnly", configs, order, fail_at)
             @@ [config |-> None]

\* The MonitorSettingsData of Message::OpenExtendSettings.
OpenSettings(saved_config, inventory, primary_modes, secondary_modes) ==
    IF saved_config # None
    THEN [primary_monitor |-> saved_config[1].primary_monitor,
          primary_resolution |-> saved_config[1].primary_resolution,
          primary_rotation |-> saved_config[1].primary_rotation,
          secondary_resolution |-> saved_config[1].secondary_resolution,
          secondary_rotation |-> saved_config[1].secondary_rotation,
          layout |-> saved_config[1].layout,
          primary_available_resolutions |-> <<Auto>> \o primary_modes,
          secondary_available_resolutions |-> secondary_modes,
          available_monitors |-> Names(inventory)]
    ELSE [primary_monitor |-> inventory[1].name,
          primary_resolution |-> Auto,
          primary_rotation |-> Normal,
          secondary_resolution |-> IF Len(secondary_modes) = 0 THEN Res1920x1080
                                   ELSE secondary_modes[1],
          secondary_rotation |-> Normal,
          layout |-> "LeftToRight",
          primary_available_resolutions |-> <<Auto>> \o primary_modes,
          secondary_available_resolutions |-> secondary_modes,
          available_monitors |-> Names(inventory)]

\* Message::ApplyExtendSettings up to its save: the configuration of the
\* settings, and save_extend_configuration of it.
SettingsSave(settings, inventory, configs, content, utc_now, write) ==
    LET secondary_monitor ==
            IF FindOther(inventory, settings.primary_monitor) = None
            THEN <<"U", "n", "k", "n", "o", "w", "n">>
            ELSE FindOther(inventory, settings.primary_monitor)[1].name
        extend_config ==
            create_config_from_settings(settings.primary_monitor, secondary_monitor,
                                        settings.primary_resolution, settings.primary_rotation,
                                        settings.secondary_resolution,
                                        settings.secondary_rotation, settings.layout, utc_now)
        key == generate_config_key(extend_config)
        stored == MapInsert(configs, key, StampLastUsed(extend_config, utc_now + 1))
        disk == save_to_disk(DisplayConfig(stored, Some(key)), content, write)
    IN  [config |-> extend_config, extend_configurations |-> stored,
         last_used_extend_config |-> Some(key), file |-> disk.file, result |-> disk.result]

ApplyExtendSettingsOutcome_SaveGuardsApply(saved, inventory, fail_at) ==
    IF saved.result.ok
    THEN [issued |-> <<WriteFile>> \o apply_extend_mode(inventory, saved.config, fail_at).issued,
          result |-> apply_extend_mode(inventory, saved.config, fail_at).result]
    ELSE [issued |-> <<WriteFile>>, result |-> saved.result]

\* Message::ApplyExtendSettings after its save: apply_extend_mode of the
\* configuration, whatever the save returned.
ApplyExtendSettingsOutcome(saved, inventory, fail_at) ==
    [issued |-> <<WriteFile>> \o apply_extend_mode(inventory, saved.config, fail_at).issued,
     result |-> apply_extend_mode(inventory, saved.config, fail_at).result]

\* Message::MonitorsLoaded(Ok(monitors)) and Message::MonitorsLoaded(Err(err)),
\* the outcome of the task Application::new starts.
HostMonitorsLoaded ==
    /\ pc = "running"
    /\ host.state = "Loading"
    /\ \E loaded \in BOOLEAN :
          host' = [host EXCEPT !.state = IF loaded THEN "Loaded" ELSE "Error"]
    /\ UNCHANGED <<store_vars, monitors, call, issued, result, pc, disk_vars, catalog_vars>>

\* Message::SetMode(mode).
HostSetMode ==
    /\ pc = "running"
    /\ \E mode \in {"Mirror", "Extend", "MainScreenOnly", "SecondScreenOnly"},
          fail_at \in (IF host.state = "Loaded" THEN 0..4 ELSE {0}) :
          \E order \in IterationOrders(extend_configurations) :
             \E out \in {SetModeOutcome(host.state, monitors, mode, extend_configurations,
                                        order, now, fail_at)} :
                /\ issued' = out.issued
                /\ result' = out.result
                /\ call' = [HostNoCall EXCEPT !.op = "SetMode", !.mode = mode,
                                              !.config = out.config, !.fail_at = fail_at]
    /\ pc' = process_exit(pc)
    /\ UNCHANGED <<store_vars, monitors, disk_vars, catalog_vars, host_vars>>

\* Message::OpenExtendSettings, with two monitors or more loaded.
HostOpenExtendSettings ==
    /\ pc = "running"
    /\ host.state = "Loaded"
    /\ Len(monitors) >= 2
    /\ \E order \in IterationOrders(extend_configurations) :
          LET saved_config == get_extend_configuration_for_monitors(
                                  extend_configurations, order, Names(monitors))
              primary_name == IF saved_config # None THEN saved_config[1].primary_monitor
                              ELSE monitors[1].name
              secondary_name == IF saved_config # None THEN saved_config[1].secondary_monitor
                                ELSE monitors[2].name
          IN  \E primary_query \in ModeQueries, secondary_query \in ModeQueries :
                 host' = [state |-> "MonitorSettings",
                          settings |-> Some(OpenSettings(
                              saved_config, monitors,
                              get_monitor_available_modes(primary_name, primary_query.success,
                                                          primary_query.stdout),
                              get_monitor_available_modes(secondary_name,
                                                          secondary_query.success,
                                                          secondary_query.stdout)))]
    /\ UNCHANGED <<store_vars, monitors, call, issued, result, pc, disk_vars, catalog_vars>>

\* Message::UpdatePrimaryResolution(resolution), one of the first two
\* resolutions of the pick list.
HostUpdatePrimaryResolution ==
    /\ pc = "running"
    /\ host.state = "MonitorSettings"
    /\ \E i \in (DOMAIN host.settings[1].primary_available_resolutions) \cap (1..2) :
          host' = [host EXCEPT !.settings[1].primary_resolution =
                                   host.settings[1].primary_available_resolutions[i]]
    /\ UNCHANGED <<store_vars, monitors, call, issued, result, pc, disk_vars, catalog_vars>>

\* Message::UpdatePrimaryRotation(rotation).
HostUpdatePrimaryRotation ==
    /\ pc = "running"
    /\ host.state = "MonitorSettings"
    /\ \E rotation \in {Normal, Left} :
          host' = [host EXCEPT !.settings[1].primary_rotation = rotation]
    /\ UNCHANGED <<store_vars, monitors, call, issued, result, pc, disk_vars, catalog_vars>>

\* Message::UpdateSecondaryResolution(resolution), one of the first two
\* resolutions of the pick list.
HostUpdateSecondaryResolution ==
    /\ pc = "running"
    /\ host.state = "MonitorSettings"
    /\ \E i \in (DOMAIN host.settings[1].secondary_available_resolutions) \cap (1..2) :
          host' = [host EXCEPT !.settings[1].secondary_resolution =
                                   host.settings[1].secondary_available_resolutions[i]]
    /\ UNCHANGED <<store_vars, monitors, call, issued, result, pc, disk_vars, catalog_vars>>

\* Message::UpdateSecondaryRotation(rotation).
HostUpdateSecondaryRotation ==
    /\ pc = "running"
    /\ host.state = "MonitorSettings"
    /\ \E rotation \in {Normal, Inverted} :
          host' = [host EXCEPT !.settings[1].secondary_rotation = rotation]
    /\ UNCHANGED <<store_vars, monitors, call, issued, result, pc, disk_vars, catalog_vars>>

\* Message::UpdateLayout(layout).
HostUpdateLayout ==
    /\ pc = "running"
    /\ host.state = "MonitorSettings"
    /\ \E layout \in {"LeftToRight", "BottomToTop"} :
          host' = [host EXCEPT !.settings[1].layout = layout]
    /\ UNCHANGED <<store_vars, monitors, call, issued, result, pc, disk_vars, catalog_vars>>

\* Message::UpdatePrimaryMonitor(monitor_name), a name of the pick list.
HostUpdatePrimaryMonitor ==
    /\ pc = "running"
    /\ host.state = "MonitorSettings"
    /\ \E n \in DOMAIN host.settings[1].available_monitors :
          \E primary_query \in ModeQueries, secondary_query \in ModeQueries :
             LET monitor_name == host.settings[1].available_monitors[n]
                 primary_modes == get_monitor_available_modes(
                                      monitor_name, primary_query.success, primary_query.stdout)
                 secondary_monitor == FindOther(monitors, monitor_name)
                 secondary_modes ==
                     get_monitor_available_modes(secondary_monitor[1].name,
                                                 secondary_query.success, secondary_query.stdout)
                 renamed == [host.settings[1] EXCEPT
                                !.primary_monitor = monitor_name,
                                !.primary_available_resolutions = <<Auto>> \o primary_modes]
             IN  host' = [host EXCEPT !.settings =
                             Some(IF secondary_monitor = None THEN renamed
                                  ELSE [renamed EXCEPT
                                           !.secondary_available_resolutions = secondary_modes,
                                           !.primary_resolution = Auto,
                                           !.secondary_resolution =
                                               IF Len(secondary_modes) = 0 THEN Res1920x1080
                                               ELSE secondary_modes[1]])]
    /\ UNCHANGED <<store_vars, monitors, call, issued, result, pc, disk_vars, catalog_vars>>

\* Message::ApplyExtendSettings.
HostApplyExtendSettings ==
    /\ pc = "running"
    /\ IF host.state = "MonitorSettings"
       THEN \E write \in WriteOutcomes, fail_at \in {0, 4} :
               LET saved == SettingsSave(host.settings[1], monitors, extend_configurations,
                                         file, now, write)
                   out == ApplyExtendSettingsOutcome(saved, monitors, fail_at)
               IN  /\ extend_configurations' = saved.extend_configurations
                   /\ last_used_extend_config' = saved.last_used_extend_config
                   /\ file' = saved.file
                   /\ now' = now + 1
                   /\ issued' = out.issued
                   /\ result' = out.result
                   /\ call' = [HostNoCall EXCEPT !.op = "ApplyExtendSettings",
                                                 !.config = Some(saved.config),
                                                 !.fail_at = fail_at, !.write = write,
                                                 !.saved = saved.result]
       ELSE /\ call' = [HostNoCall EXCEPT !.op = "ApplyExtendSettings"]
            /\ issued' = <<>>
            /\ result' = Ok
            /\ UNCHANGED store_vars
    /\ pc' = process_exit(pc)
    /\ UNCHANGED <<monitors, disk_vars, catalog_vars, host_vars>>

\* Message::BackToMain.
HostBackToMain ==
    /\ pc = "running"
    /\ host.state = "MonitorSettings"
    /\ host' = [state |-> "Loaded", settings |-> None]
    /\ UNCHANGED <<store_vars, monitors, call, issued, result, pc, disk_vars, catalog_vars>>

\* Message::Cancel, and the Escape key.
HostCancel ==
    /\ pc = "running"
    /\ call' = [HostNoCall EXCEPT !.op = "Cancel"]
    /\ issued' = <<>>
    /\ result' = Ok
    /\ pc' = process_exit(pc)
    /\ UNCHANGED <<store_vars, monitors, disk_vars, catalog_vars, host_vars>>

\* Message::ResetToDefaults.
HostResetToDefaults ==
    /\ pc = "running"
    /\ \E fail_at \in 0..1 :
          /\ issued' = reset_to_defaults(fail_at).issued
          /\ result' = reset_to_defaults(fail_at).result
          /\ call' = [HostNoCall EXCEPT !.op = "ResetToDefaults", !.fail_at = fail_at]
    /\ pc' = process_exit(pc)
    /\ UNCHANGED <<store_vars, monitors, disk_vars, catalog_vars, host_vars>>

\* After Application::new: the store is the one of config.json, the state is
\* Loading.
HostInit ==
    /\ \E store \in HostStores :
          /\ extend_configurations = store.extend_configurations
          /\ last_used_extend_config = store.last_used_extend_config
          /\ file = IF store.last_used_extend_config = None THEN None
                    ELSE Some(to_string_pretty(store))
    /\ now = 1
    /\ monitors \in HostInventories
    /\ call = HostNoCall
    /\ issued = <<>>
    /\ result = Ok
    /\ pc = "running"
    /\ procs = <<>>
    /\ query = None
    /\ available_modes = <<>>
    /\ host = [state |-> "Loading", settings |-> None]

HostNext ==
    \/ HostMonitorsLoaded
    \/ HostSetMode
    \/ HostOpenExtendSettings
    \/ HostUpdatePrimaryResolution
    \/ HostUpdatePrimaryRotation
    \/ HostUpdateSecondaryResolution
    \/ HostUpdateSecondaryRotation
    \/ HostUpdateLayout
    \/ HostUpdatePrimaryMonitor
    \/ HostApplyExtendSettings
    \/ HostBackToMain
    \/ HostCancel
    \/ HostResetToDefaults

SpecHost == HostInit /\ [][HostNext]_vars

(***************************************************************************)
(* Properties of the display controller (specification Spec)               *)
(***************************************************************************)
ApplyOps == {"mirror", "extend", "single"}

InventoryNames == {monitors[i].name : i \in DOMAIN monitors}

StoredRecords == {extend_configurations[k] : k \in DOMAIN extend_configurations}

\* The fields of a monitor rule, joined by commas.
RECURSIVE JoinComma(_)
JoinComma(fields) ==
    IF Len(fields) = 0 THEN <<>>
    ELSE IF Len(fields) = 1 THEN fields[1]
    ELSE fields[1] \o <<",">> \o JoinComma(Tail(fields))

\* "<width>x<height>"
Resolution(m) == FormatInt(m.width) \o <<"x">> \o FormatInt(m.height)

\* C1: with fewer than two monitors, apply_mirror_mode, apply_extend_mode and
\* apply_single_screen_mode return success and issue nothing: no command and no
\* settling delay, whatever the store, the configuration, the flag and the
\* outcome the commands would have had.
C1_FewMonitorsNoOp ==
    (call.op \in ApplyOps /\ Len(monitors) < 2) => (result = Ok /\ issued = <<>>)

C1_Witness ==
    /\ call.op = "extend"
    /\ Len(monitors) = 1
    /\ call.config[1].primary_monitor = monitors[1].name
    /\ call.fail_at = 1
    /\ result = Ok
    /\ issued = <<>>

\* C2: with at least two monitors, when the configuration's primary_monitor or
\* secondary_monitor is not the name of a monitor of the inventory,
\* apply_extend_mode returns a monitor-not-found error and has issued nothing.
C2_AbsentMonitorNoCommands ==
    (/\ call.op = "extend"
     /\ Len(monitors) >= 2
     /\ \/ call.config[1].primary_monitor \notin InventoryNames
        \/ call.config[1].secondary_monitor \notin InventoryNames)
    => /\ ~result.ok
       /\ result.err \in {"Primary monitor not found", "Secondary monitor not found"}
       /\ issued = <<>>

C2_Witness ==
    /\ call.op = "extend"
    /\ Len(monitors) = 2
    /\ call.config[1].primary_monitor \in InventoryNames
    /\ call.config[1].secondary_monitor \notin InventoryNames
    /\ call.fail_at = 0
    /\ result = Err("Secondary monitor not found")
    /\ issued = <<>>

\* The call of apply_extend_mode got past its checks: two monitors or more, and
\* both configured monitors in the inventory.
ExtendRuns ==
    /\ call.op = "extend"
    /\ Len(monitors) >= 2
    /\ call.config[1].primary_monitor \in InventoryNames
    /\ call.config[1].secondary_monitor \in InventoryNames

\* The fixed sequence of apply_extend_mode for the configuration it was called with.
ExtendSequence ==
    LET config == call.config[1]
        primary == CHOOSE m \in Range(monitors) : m.name = config.primary_monitor
        rules == ExtendRules(primary, config)
    IN  <<Exec(JoinComma(<<config.primary_monitor, Disable>>)),
          Exec(JoinComma(<<config.secondary_monitor, Disable>>)),
          Sleep(SettleDelayMs),
          Exec(rules[1]),
          Exec(rules[2])>>

\* C3: when both configured monitors are present and every command succeeds,
\* apply_extend_mode issues exactly four commands, disable primary, disable
\* secondary, apply primary's configuration, apply secondary's configuration,
\* with the settling delay exactly once, after the second disable and before the
\* first apply, and returns success.
C3_ExtendSequenceOnSuccess ==
    (ExtendRuns /\ call.fail_at = 0)
    => /\ issued = ExtendSequence
       /\ [i \in DOMAIN issued |-> issued[i].kind]
             = <<"exec", "exec", "sleep", "exec", "exec">>
       /\ issued[4].rule # issued[1].rule /\ issued[5].rule # issued[2].rule
       /\ result = Ok

C3_Witness ==
    /\ ExtendRuns
    /\ call.fail_at = 0
    /\ Len(monitors) = 3
    /\ call.config[1].primary_monitor = monitors[3].name
    /\ Len(issued) = 5
    /\ issued[3] = Sleep(SettleDelayMs)
    /\ result = Ok

\* How much of the fixed sequence is issued when its k-th command fails.
PrefixLength(k) == IF k <= 2 THEN k ELSE k + 1

\* C4: when the k-th command of apply_extend_mode's sequence fails, the error is
\* returned and what was issued is the sequence up to that command and nothing
\* else: no later command, no compensating command, and no settling delay when a
\* disable failed.  What is issued is always a prefix of the fixed sequence.
C4_ExtendAbortsAtFirstFailure ==
    ExtendRuns
    => /\ \E n \in 0..5 : issued = SubSeq(ExtendSequence, 1, n)
       /\ call.fail_at > 0
          => /\ ~result.ok
             /\ result.err = "dispatch"
             /\ issued = SubSeq(ExtendSequence, 1, PrefixLength(call.fail_at))
             /\ issued[Len(issued)].kind = "exec"
             /\ call.fail_at <= 2 => \A i \in DOMAIN issued : issued[i].kind # "sleep"

C4_Witness ==
    /\ ExtendRuns
    /\ call.fail_at = 2
    /\ Len(issued) = 2
    /\ issued[2] = Exec(JoinComma(<<call.config[1].secondary_monitor, Disable>>))
    /\ ~result.ok

\* C5: with at least two monitors, apply_mirror_mode first configures the primary
\* at its own width, height and scale at 0x0, then configures a monitor different
\* from the primary at the primary's width, height and scale at 0x0, mirrored
\* onto the primary's name; when the first command fails the second one is not
\* issued and the error is returned.
C5_MirrorSequence ==
    (call.op = "mirror" /\ Len(monitors) >= 2)
    => \E p \in Range(monitors), s \in Range(monitors) :
          /\ s.name # p.name
          /\ Len(issued) >= 1
          /\ issued[1] = Exec(JoinComma(<<p.name, Resolution(p), Origin,
                                           FormatScale(p.scale)>>))
          /\ call.fail_at = 1 => (Len(issued) = 1 /\ result = Err("dispatch"))
          /\ call.fail_at # 1
             => /\ Len(issued) = 2
                /\ issued[2] = Exec(JoinComma(<<s.name, Resolution(p), Origin,
                                                 FormatScale(p.scale), Mirror, p.name>>))
                /\ result = IF call.fail_at = 0 THEN Ok ELSE Err("dispatch")

C5_Witness ==
    /\ call.op = "mirror"
    /\ Len(monitors) = 3
    /\ call.fail_at = 0
    /\ Len(issued) = 2
    /\ issued[1].rule = JoinComma(<<HDMI1, <<"2", "5", "6", "0", "x", "1", "4", "4", "0">>,
                                    Origin, <<"1", ".", "5">> >>)
    /\ issued[2].rule = JoinComma(<<DP1, <<"2", "5", "6", "0", "x", "1", "4", "4", "0">>,
                                    Origin, <<"1", ".", "5">>, Mirror, HDMI1>>)
    /\ result = Ok

\* The stored records whose primary and secondary are both in the inventory.
RecordsForInventory ==
    {r \in StoredRecords :
        r.primary_monitor \in InventoryNames /\ r.secondary_monitor \in InventoryNames}

\* The names C6 allows for the primary.
ExpectedPrimaryNames ==
    IF RecordsForInventory # {}
    THEN {r.primary_monitor : r \in {q \in RecordsForInventory :
                                 \A o \in RecordsForInventory : q.last_used >= o.last_used}}
    ELSE IF \E i \in DOMAIN monitors : monitors[i].focused
    THEN {monitors[i].name : i \in {j \in DOMAIN monitors : monitors[j].focused}}
    ELSE {monitors[1].name}

C7_SingleScreenSequence ==
    (call.op = "single" /\ Len(monitors) >= 2)
    => \E active \in Range(monitors), inactive \in Range(monitors) :
          /\ active.name # inactive.name
          /\ IF call.primary_only
             THEN active.name \in ExpectedPrimaryNames
             ELSE inactive.name \in ExpectedPrimaryNames
          /\ Len(issued) >= 1
          /\ issued[1] = Exec(JoinComma(<<active.name, Resolution(active), Origin,
                                           FormatScale(active.scale)>>))
          /\ call.fail_at = 1 => (Len(issued) = 1 /\ result = Err("dispatch"))
          /\ call.fail_at # 1
             => /\ Len(issued) = 2
                /\ issued[2] = Exec(JoinComma(<<inactive.name, Disable>>))
                /\ result = IF call.fail_at = 0 THEN Ok ELSE Err("dispatch")

C7_Witness ==
    /\ call.op = "single"
    /\ ~call.primary_only
    /\ Len(monitors) = 3
    /\ RecordsForInventory # {}
    /\ call.fail_at = 2
    /\ Len(issued) = 2
    /\ issued[2].rule = JoinComma(<<monitors[3].name, Disable>>)
    /\ issued[1].rule = JoinComma(<<monitors[1].name, Resolution(monitors[1]), Origin,
                                    FormatScale(monitors[1].scale)>>)
    /\ ~result.ok

(***************************************************************************)
(* Properties of the store (specification SpecStore)                       *)
(***************************************************************************)
\* C8: immediately after save_extend_configuration(c),
\* get_extend_configuration_for_monitors([c.primary_monitor, c.secondary_monitor])
\* returns a record equal to c in every field except last_used, which holds the
\* save time.
C8_SaveLookupRoundTrip ==
    call.op = "save"
    => LET c == call.config[1]
       IN  \A order \in IterationOrders(extend_configurations) :
              LET got == get_extend_configuration_for_monitors(
                             extend_configurations, order,
                             <<c.primary_monitor, c.secondary_monitor>>)
              IN  /\ got # None
                  /\ got[1].name = c.name
                  /\ got[1].primary_monitor = c.primary_monitor
                  /\ got[1].primary_resolution = c.primary_resolution
                  /\ got[1].primary_rotation = c.primary_rotation
                  /\ got[1].secondary_monitor = c.secondary_monitor
                  /\ got[1].secondary_resolution = c.secondary_resolution
                  /\ got[1].secondary_rotation = c.secondary_rotation
                  /\ got[1].layout = c.layout
                  /\ got[1].created_at = c.created_at
                  /\ got[1].last_used = now
                  /\ DOMAIN got[1] = DOMAIN c

C8_Witness ==
    /\ call.op = "save"
    /\ ~result.ok
    /\ LET c == call.config[1]
       IN  /\ c.primary_monitor # c.secondary_monitor
           /\ c.last_used < now
           /\ \E r \in StoredRecords :
                 /\ r.primary_monitor = c.secondary_monitor
                 /\ r.secondary_monitor = c.primary_monitor
                 /\ r.layout # c.layout
           /\ \A order \in IterationOrders(extend_configurations) :
                 get_extend_configuration_for_monitors(
                     extend_configurations, order,
                     <<c.primary_monitor, c.secondary_monitor>>)
                 = Some([c EXCEPT !.last_used = now])

\* The stored records whose primary and secondary are both in available.
RecordsFor(available) ==
    {r \in StoredRecords :
        r.primary_monitor \in Range(available) /\ r.secondary_monitor \in Range(available)}

RecordsForPair(a, b) ==
    {r \in StoredRecords :
        \/ (r.primary_monitor = a /\ r.secondary_monitor = b)
        \/ (r.primary_monitor = b /\ r.secondary_monitor = a)}

\* C10: get_extend_configuration_by_monitors(a, b) returns a stored record whose
\* (primary_monitor, secondary_monitor) is (a, b) or (b, a) whenever there is
\* one, None otherwise, and the same result for (a, b) as for (b, a).
C10_UnorderedPairLookup ==
    \A a \in MonitorNames, b \in MonitorNames :
       \A order \in IterationOrders(extend_configurations) :
          LET got == get_extend_configuration_by_monitors(extend_configurations, order, a, b)
          IN  /\ RecordsForPair(a, b) # {} => (got # None /\ got[1] \in RecordsForPair(a, b))
              /\ RecordsForPair(a, b) = {} => got = None
              /\ got = get_extend_configuration_by_monitors(extend_configurations, order,
                                                            b, a)

C10_Witness ==
    \E a \in MonitorNames, b \in MonitorNames :
       /\ a # b
       /\ Cardinality(RecordsForPair(a, b)) = 1
       /\ \A r \in RecordsForPair(a, b) : r.primary_monitor = b
       /\ StoredRecords \ RecordsForPair(a, b) # {}
       /\ \A order \in IterationOrders(extend_configurations) :
             get_extend_configuration_by_monitors(extend_configurations, order, a, b)
             \in {Some(r) : r \in RecordsForPair(a, b)}

\* The keys "<primary>_<secondary>" of the monitor names, and the values the
\* most-recently-used pointer can take over them.
PairKeys == {p \o <<"_">> \o s : p \in MonitorNames, s \in MonitorNames}

Pointers == {None} \cup {Some(k) : k \in PairKeys}

\* C11: after a save_extend_configuration(c), whatever was saved before it,
\* get_last_extend_configuration returns c with last_used set to the save time;
\* and for every value of the pointer, get_last_extend_configuration returns None
\* when the pointer is unset or names a key that is not in the store, and the
\* record under the key it names otherwise.
C11_LastConfiguration ==
    /\ call.op = "save"
       => get_last_extend_configuration(extend_configurations, last_used_extend_config)
          = Some([call.config[1] EXCEPT !.last_used = now])
    /\ \A last \in Pointers :
          LET got == get_last_extend_configuration(extend_configurations, last)
          IN  IF last = None \/ last[1] \notin DOMAIN extend_configurations
              THEN got = None
              ELSE got = Some(extend_configurations[last[1]])

C11_Witness ==
    /\ call.op = "save"
    /\ now = 2
    /\ Cardinality(DOMAIN extend_configurations) = 2
    /\ call.config[1].last_used = 1
    /\ LET got == get_last_extend_configuration(extend_configurations,
                                                last_used_extend_config)
       IN  /\ got # None
           /\ got[1].last_used = 2
           /\ got[1].name = call.config[1].name
           /\ \E r \in StoredRecords : r.last_used = 1 /\ r.name # got[1].name
    /\ \E last \in Pointers :
          /\ last # None
          /\ last[1] \notin DOMAIN extend_configurations
          /\ get_last_extend_configuration(extend_configurations, last) = None

\* C12: every record of the store is stored under the key made of its own
\* primary_monitor, an underscore and its own secondary_monitor.
C12_KeyFromRecord ==
    \A k \in DOMAIN extend_configurations :
       LET r == extend_configurations[k]
       IN  k = r.primary_monitor \o <<"_">> \o r.secondary_monitor

C12_Witness ==
    /\ Cardinality(DOMAIN extend_configurations) = 2
    /\ \E k \in DOMAIN extend_configurations :
          /\ extend_configurations[k].primary_monitor = DP1_DP1
          /\ extend_configurations[k].secondary_monitor = HDMI1
          /\ k = DP1_DP1 \o <<"_">> \o HDMI1
    /\ \E k \in DOMAIN extend_configurations :
          extend_configurations[k].primary_monitor = HDMI1

\* C13: a save_extend_configuration(c) removes no key, leaves every record under
\* a key other than c's as it was, and, when the store holds a record for c's two
\* monitors with primary and secondary swapped, leaves that record as it was,
\* under its key, and stores c's record under a second key.
C13_SaveFrame ==
    [][LET c == call'.config[1]
           key == c.primary_monitor \o <<"_">> \o c.secondary_monitor
       IN  /\ DOMAIN extend_configurations \subseteq DOMAIN extend_configurations'
           /\ \A k \in DOMAIN extend_configurations :
                 k # key => extend_configurations'[k] = extend_configurations[k]
           /\ \A k \in DOMAIN extend_configurations :
                 (/\ c.primary_monitor # c.secondary_monitor
                  /\ extend_configurations[k].primary_monitor = c.secondary_monitor
                  /\ extend_configurations[k].secondary_monitor = c.primary_monitor)
                 => /\ extend_configurations'[k] = extend_configurations[k]
                    /\ key # k
                    /\ extend_configurations'[key] = [c EXCEPT !.last_used = now']]_vars

\* A save of (DP-1_DP-1, DP-1) over a stored record of (DP-1, DP-1_DP-1): both
\* have the key DP-1_DP-1_DP-1, and the store holds one record, the later one.
C13_Witness ==
    /\ call.op = "save"
    /\ now = 2
    /\ call.config[1].primary_monitor = DP1_DP1
    /\ call.config[1].secondary_monitor = DP1
    /\ DOMAIN extend_configurations = {DP1 \o <<"_">> \o DP1_DP1}
    /\ \A r \in StoredRecords : r.primary_monitor = DP1_DP1 /\ r.last_used = 2

\* C15: a save_extend_configuration returns an error exactly when the write of
\* the file failed; and when it returns an error the content of the file is what
\* it was before the call, while the store in memory holds the saved record
\* under its key with the pointer on it, as after a successful save.
C15_SaveError ==
    [][call'.op = "save"
       => LET c == call'.config[1]
              key == generate_config_key(c)
          IN  /\ (~result'.ok) <=> (call'.write # "written")
              /\ ~result'.ok
                 => /\ file' = file
                    /\ extend_configurations'
                       = MapInsert(extend_configurations, key, [c EXCEPT !.last_used = now'])
                    /\ last_used_extend_config' = Some(key)]_vars

\* A save whose write failed after the file was opened: the store written by
\* the save before it is no longer in the file.
C15_Witness ==
    /\ call.op = "save"
    /\ call.write = "cut_short"
    /\ ~result.ok
    /\ Cardinality(DOMAIN extend_configurations) = 2
    /\ file = Some(NotJson)
    /\ from_str(file[1]) = None

(***************************************************************************)
(* Properties of the persisted file (specification SpecDisk)               *)
(***************************************************************************)
\* The DisplayConfig of process p.
ConfigOfProc(p) ==
    DisplayConfig(procs[p].extend_configurations, procs[p].last_used_extend_config)

EmptyStore == DisplayConfig(<<>>, None)

\* Whether the file of the last ConfigManager::new() could be opened and read as text.
Readable ==
    /\ call.dir_ok
    /\ file = None \/ (call.read_ok /\ file[1].kind # "not_utf8")

\* C14 as stated: ConfigManager::new() on an absent file, or on a file whose
\* content is not the JSON of a store, succeeds with an empty store.
C14_LoadNeverFails ==
    (call.op = "new" /\ (file = None \/ from_str(file[1]) = None))
    => (result.ok /\ ConfigOfProc(call.proc) = EmptyStore)

\* C14, amended: ConfigManager::new() succeeds exactly when the directory could
\* be created and the file is absent or could be read as UTF-8 text; when it
\* succeeds on an absent file or on text that is not the JSON of a store, the
\* store is empty: no record, pointer unset.
C14_LoadRecovers ==
    call.op = "new"
    => /\ result.ok <=> Readable
       /\ (Readable /\ (file = None \/ from_str(file[1]) = None))
          => /\ procs[call.proc].pc = "running"
             /\ ConfigOfProc(call.proc) = EmptyStore

C14_Witness ==
    /\ call.op = "new"
    /\ file # None
    /\ file[1].kind = "object"
    /\ from_str(file[1]) = None
    /\ result.ok
    /\ procs[call.proc].pc = "running"
    /\ procs[call.proc].extend_configurations = <<>>
    /\ procs[call.proc].last_used_extend_config = None

\* C16: after a successful save_extend_configuration by a process, the file is
\* the serialization of that process's whole store, records and pointer, and
\* ConfigManager::new() on that file succeeds with a store equal to it.
C16_WriteBack ==
    (call.op = "save" /\ result.ok)
    => LET loaded == ConfigManager_new(file, TRUE, TRUE)
       IN  /\ file = Some(to_string_pretty(ConfigOfProc(call.proc)))
           /\ loaded.result.ok
           /\ loaded.config = ConfigOfProc(call.proc)

C16_Witness ==
    /\ call.op = "save"
    /\ result.ok
    /\ Cardinality(DOMAIN procs[call.proc].extend_configurations) = 3
    /\ procs[call.proc].last_used_extend_config = Some(generate_config_key(call.config[1]))
    /\ \E q \in ProcIds : procs[q].pc = "start"
    /\ ConfigManager_new(file, TRUE, TRUE).config = ConfigOfProc(call.proc)

\* C17: nothing merges the saves of two processes. After a successful save by a
\* process the file holds that process's store and nothing else, so a record
\* that another process holds (and may have written) under a key the saver does
\* not hold is not in the file.
C17_LastWriterWins ==
    (call.op = "save" /\ result.ok)
    => LET on_disk == from_str(file[1])
       IN  /\ on_disk = Some(ConfigOfProc(call.proc))
           /\ \A q \in ProcIds \ {call.proc} :
                 \A k \in DOMAIN procs[q].extend_configurations :
                    k \notin DOMAIN procs[call.proc].extend_configurations
                    => k \notin DOMAIN on_disk[1].extend_configurations

\* The lost update: both processes loaded the same empty store, each saved one
\* record, under different keys, and both writes succeeded; the file holds the
\* record of the second writer only.
C17_Witness ==
    /\ call.op = "save"
    /\ result.ok
    /\ \A p \in ProcIds :
          /\ procs[p].pc = "running"
          /\ procs[p].result.ok
          /\ Cardinality(DOMAIN procs[p].extend_configurations) = 1
    /\ DOMAIN procs[1].extend_configurations # DOMAIN procs[2].extend_configurations
    /\ DOMAIN from_str(file[1])[1].extend_configurations
       = DOMAIN procs[call.proc].extend_configurations

(***************************************************************************)
(* Properties of the mode catalog (specification SpecModes)                *)
(***************************************************************************)
\* What parse_monitor_modes found for the query, before its fallback.
Scanned == ScannedModes(query[1].stdout, query[1].monitor_name)

\* The availableModes line parse_monitor_modes stops at for the query, if any.
QueryModesLine == ModesLine(Lines(query[1].stdout), query[1].monitor_name, FALSE)

\* C18: whatever the capability text and the monitor name, and whether the query
\* succeeded or failed, the list get_monitor_available_modes returns has at
\* least one element.
C18_NeverEmpty ==
    call.op = "modes" => Len(available_modes) >= 1

\* The query succeeded, the text has the monitor's section and its
\* availableModes line, and no token of the line is a mode.
C18_Witness ==
    /\ call.op = "modes"
    /\ call.success
    /\ QueryModesLine # None
    /\ Len(QueryModesLine[1]) > Len(AvailableModesPrefix)
    /\ Scanned = <<>>
    /\ Len(available_modes) = 3

\* C19: the list returned when the query succeeded and parsing found no mode is
\* the list returned when the query fails.
C19_SameFallback ==
    (call.op = "modes" /\ call.success /\ Scanned = <<>>)
    => available_modes
       = get_monitor_available_modes(query[1].monitor_name, FALSE, query[1].stdout)

\* The query succeeded with an empty text: three resolutions are returned, six
\* when the query fails.
C19_Witness ==
    /\ call.op = "modes"
    /\ call.success
    /\ query[1].stdout = <<>>
    /\ available_modes = <<Res1920x1080, Res2560x1440, Res3840x2160>>
    /\ Len(get_monitor_available_modes(query[1].monitor_name, FALSE, query[1].stdout)) = 6

\* The tokens of the availableModes line of the query, and the positions of
\* those that have a resolution.
ModesLineTokens ==
    IF QueryModesLine = None THEN <<>>
    ELSE SplitWhitespace(StripPrefix(QueryModesLine[1], AvailableModesPrefix))

AcceptedTokens ==
    {i \in DOMAIN ModesLineTokens : extract_resolution_from_line(ModesLineTokens[i]) # None}

FirstOccurrence(resolution) ==
    Min({i \in AcceptedTokens :
            extract_resolution_from_line(ModesLineTokens[i]) = Some(resolution)})

\* C20: the list a successful query returns has no resolution twice; when the
\* availableModes line has accepted tokens, its elements are the resolutions of
\* those tokens, in the order of their first occurrences on the line; and a
\* successful query on the same text after a successful query returns the same
\* list.
C20_DeterministicDeduplicated ==
    [][(call'.op = "modes" /\ call'.success)
       => /\ \A i, j \in DOMAIN available_modes' :
                i # j => available_modes'[i] # available_modes'[j]
          /\ AcceptedTokens # {}
             => /\ Range(available_modes')
                   = {extract_resolution_from_line(ModesLineTokens[i])[1] :
                         i \in AcceptedTokens}
                /\ \A i, j \in DOMAIN available_modes' :
                      i < j => FirstOccurrence(available_modes'[i])
                               < FirstOccurrence(available_modes'[j])
          /\ (call.op = "modes" /\ call.success)
             => available_modes' = available_modes]_vars

\* Three accepted tokens, the third with the resolution of the first.
C20_Witness ==
    /\ call.op = "modes"
    /\ call.success
    /\ Cardinality(AcceptedTokens) = 3
    /\ extract_resolution_from_line(ModesLineTokens[3]) = Some(Res1920x1080)
    /\ Len(available_modes) = 2
    /\ available_modes[1] = Res1920x1080
    /\ available_modes[2] # Res1920x1080

(***************************************************************************)
(* Properties of extend mode (specification SpecExtend)                    *)
(***************************************************************************)
\* The width and height a resolution text stands for: each one the integer
\* written on its side of the first x, or 1920 for the width and 1080 for the
\* height when there is none.
SizeOf(text) ==
    IF text = Res1920x1080 THEN [width |-> 1920, height |-> 1080]
    ELSE IF text = Res2560x1440 THEN [width |-> 2560, height |-> 1440]
    ELSE IF text = Res1280x THEN [width |-> 1280, height |-> 1080]
    ELSE IF text = Resx720 THEN [width |-> 1920, height |-> 720]
    ELSE IF text = Res1280 THEN [width |-> 1280, height |-> 1080]
    ELSE [width |-> 1920, height |-> 1080]

AtWidth(w) == FormatInt(w) \o <<"x", "0">>

AtHeight(h) == <<"0", "x">> \o FormatInt(h)

\* C21: calculate_positions gives (0x0, <primary_width>x0) for LeftToRight,
\* (0x0, 0x<primary_height>) for TopToBottom, (<secondary_width>x0, 0x0) for
\* RightToLeft and (0x<secondary_height>, 0x0) for BottomToTop, the secondary
\* width and height being those written in secondary_resolution, or 1920 and
\* 1080 when it has none.
C21_LayoutTable ==
    call.op = "positions"
    => LET secondary == SizeOf(call.secondary_resolution)
           primary_pos == result.positions[1]
           secondary_pos == result.positions[2]
       IN  /\ call.layout = "LeftToRight"
              => primary_pos = Origin /\ secondary_pos = AtWidth(call.primary_width)
           /\ call.layout = "TopToBottom"
              => primary_pos = Origin /\ secondary_pos = AtHeight(call.primary_height)
           /\ call.layout = "RightToLeft"
              => primary_pos = AtWidth(secondary.width) /\ secondary_pos = Origin
           /\ call.layout = "BottomToTop"
              => primary_pos = AtHeight(secondary.height) /\ secondary_pos = Origin

C21_Witness ==
    /\ call.op = "positions"
    /\ call.layout = "BottomToTop"
    /\ call.secondary_resolution = Res1280x
    /\ call.primary_height = 1440
    /\ result.positions = <<<<"0", "x", "1", "0", "8", "0">>, <<"0", "x", "0">> >>

\* An apply_extend_mode that got to its two configuration commands.
ExtendConfigured == call.op = "extend" /\ Len(issued) = 5

\* The position field of a "name,resolution,position,1..." rule.
PositionOf(rule) == Split(rule, ",")[3]

ConfiguredMonitor(name) == CHOOSE m \in Range(monitors) : m.name = name

\* The width and height the claim gives the primary.
EffectivePrimarySize ==
    LET config == call.config[1]
    IN  IF config.primary_resolution = Auto
        THEN [width |-> ConfiguredMonitor(config.primary_monitor).width,
              height |-> ConfiguredMonitor(config.primary_monitor).height]
        ELSE SizeOf(config.primary_resolution)

\* C25: the positions in the two configuration commands of apply_extend_mode are
\* those of calculate_positions for the primary monitor's own width and height
\* when primary_resolution is auto, and otherwise for the width and height
\* written in primary_resolution, 1920 and 1080 standing in for the one that is
\* not written; DP-1 as auto primary with LeftToRight is at 0x0 and the
\* secondary at 1920x0.
C25_PrimaryDimensions ==
    ExtendConfigured
    => LET config == call.config[1]
           expected == calculate_positions(config.layout, EffectivePrimarySize.width,
                                           EffectivePrimarySize.height,
                                           config.secondary_resolution)
       IN  /\ PositionOf(issued[4].rule) = expected[1]
           /\ PositionOf(issued[5].rule) = expected[2]
           /\ (/\ config.primary_monitor = DP1
               /\ config.primary_resolution = Auto
               /\ config.layout = "LeftToRight")
              => /\ PositionOf(issued[4].rule) = <<"0", "x", "0">>
                 /\ PositionOf(issued[5].rule) = <<"1", "9", "2", "0", "x", "0">>

\* HDMI-1 (2560x1440) as primary with a configured resolution that has no
\* height: the secondary is 1080 below.
C25_Witness ==
    /\ ExtendConfigured
    /\ call.config[1].primary_monitor = HDMI1
    /\ call.config[1].primary_resolution = Res1280x
    /\ call.config[1].layout = "TopToBottom"
    /\ PositionOf(issued[5].rule) = <<"0", "x", "1", "0", "8", "0">>

\* The transform suffix of a rotation.
TransformSuffix(rotation) ==
    IF rotation = Left THEN <<",", "t", "r", "a", "n", "s", "f", "o", "r", "m", ",", "1">>
    ELSE IF rotation = Right
    THEN <<",", "t", "r", "a", "n", "s", "f", "o", "r", "m", ",", "3">>
    ELSE IF rotation = Inverted
    THEN <<",", "t", "r", "a", "n", "s", "f", "o", "r", "m", ",", "2">>
    ELSE <<>>

\* C26: the third command of apply_extend_mode is the primary's name, auto or
\* the configured primary resolution, the primary's position and the scale 1,
\* joined by commas, followed by the transform suffix of the primary rotation;
\* the fourth is the same for the secondary with its configured resolution.
\* The suffix is empty for normal and for a text that is no rotation, and
\* ",transform,1", ",transform,3", ",transform,2" for left, right, inverted.
C26_ConfigurationCommands ==
    ExtendConfigured
    => LET config == call.config[1]
           dims == PrimaryDimensions(ConfiguredMonitor(config.primary_monitor), config)
           positions == calculate_positions(config.layout, dims.width, dims.height,
                                            config.secondary_resolution)
       IN  /\ issued[4].kind = "exec" /\ issued[5].kind = "exec"
           /\ issued[4].rule
              = JoinComma(<<config.primary_monitor,
                            IF config.primary_resolution = Auto
                            THEN <<"a", "u", "t", "o">> ELSE config.primary_resolution,
                            positions[1], <<"1">> >>)
                \o TransformSuffix(config.primary_rotation)
           /\ issued[5].rule
              = JoinComma(<<config.secondary_monitor, config.secondary_resolution,
                            positions[2], <<"1">> >>)
                \o TransformSuffix(config.secondary_rotation)

C26_Witness ==
    /\ ExtendConfigured
    /\ call.config[1].primary_rotation = Flipped
    /\ call.config[1].secondary_rotation = Right
    /\ call.config[1].primary_resolution = Res2560x1440
    /\ call.config[1].layout = "RightToLeft"
    /\ Len(Split(issued[4].rule, ",")) = 4
    /\ Split(issued[5].rule, ",")[6] = <<"3">>

\* The extent of a monitor of the given size as displayed with a rotation.
Displayed(size, rotation) ==
    IF rotation \in {Left, Right} THEN [width |-> size.height, height |-> size.width]
    ELSE size

\* The resolution texts that are a mode or auto.
ModeTexts == {Auto, Res1920x1080, Res2560x1440}

\* C27: when both resolutions are a mode or auto, the positions in the two
\* configuration commands put the monitors edge to edge: the monitor that is
\* not at 0x0 is offset, along the axis of the layout, by the displayed extent
\* of the monitor at 0x0 (its mode, or its own size for auto, width and height
\* exchanged by the rotations left and right).
C27_ContinuousDesktop ==
    (/\ ExtendConfigured
     /\ call.config[1].primary_resolution \in ModeTexts
     /\ call.config[1].secondary_resolution \in ModeTexts)
    => LET config == call.config[1]
           secondary_monitor == ConfiguredMonitor(config.secondary_monitor)
           primary == Displayed(EffectivePrimarySize, config.primary_rotation)
           secondary ==
               Displayed(IF config.secondary_resolution = Auto
                         THEN [width |-> secondary_monitor.width,
                               height |-> secondary_monitor.height]
                         ELSE SizeOf(config.secondary_resolution),
                         config.secondary_rotation)
           primary_pos == PositionOf(issued[4].rule)
           secondary_pos == PositionOf(issued[5].rule)
       IN  /\ config.layout = "LeftToRight"
              => primary_pos = Origin /\ secondary_pos = AtWidth(primary.width)
           /\ config.layout = "TopToBottom"
              => primary_pos = Origin /\ secondary_pos = AtHeight(primary.height)
           /\ config.layout = "RightToLeft"
              => primary_pos = AtWidth(secondary.width) /\ secondary_pos = Origin
           /\ config.layout = "BottomToTop"
              => primary_pos = AtHeight(secondary.height) /\ secondary_pos = Origin

\* DP-1 (1920x1080) as auto primary rotated left, displayed 1080 wide, with
\* LeftToRight: the secondary is sent to 1920x0.
C27_Witness ==
    /\ ExtendConfigured
    /\ call.config[1].primary_monitor = DP1
    /\ call.config[1].primary_resolution = Auto
    /\ call.config[1].primary_rotation = Left
    /\ call.config[1].layout = "LeftToRight"
    /\ PositionOf(issued[5].rule) = <<"1", "9", "2", "0", "x", "0">>

(***************************************************************************)
(* Properties of the keys of the store (specification SpecStore)           *)
(***************************************************************************)
\* C28: the key a configuration is saved under is the key of no other
\* (primary, secondary) pair of monitor names, names with an underscore
\* included.
C28_KeyInjective ==
    call.op = "save"
    => LET c == call.config[1]
       IN  \A primary, secondary \in MonitorNames :
              (primary # c.primary_monitor \/ secondary # c.secondary_monitor)
              => generate_config_key(c)
                 # generate_config_key([primary_monitor |-> primary,
                                         secondary_monitor |-> secondary])

\* A save of (DP-1, DP-1_DP-1): its key DP-1_DP-1_DP-1 is the key of
\* (DP-1_DP-1, DP-1) as well.
C28_Witness ==
    /\ call.op = "save"
    /\ call.config[1].primary_monitor = DP1
    /\ call.config[1].secondary_monitor = DP1_DP1
    /\ generate_config_key(call.config[1]) = DP1_DP1 \o <<"_">> \o DP1
    /\ generate_config_key(call.config[1]) \in DOMAIN extend_configurations

(***************************************************************************)
(* Properties of the parser's sections and tokens (specification SpecModes) *)
(***************************************************************************)
\* The name a header line "Monitor <name> ..." gives.
HeaderName(trimmed) == SplitWhitespace(trimmed)[2]

\* The availableModes line of the section whose header names target_monitor,
\* or None when the text has no such section or the section ends, at the
\* header of another monitor, before such a line.
RECURSIVE SectionModesLine(_, _, _)
SectionModesLine(lines, target_monitor, in_section) ==
    IF Len(lines) = 0 THEN None
    ELSE LET trimmed == Trim(Head(lines))
         IN  IF StartsWith(trimmed, MonitorPrefix)
             THEN IF HeaderName(trimmed) = target_monitor
                  THEN SectionModesLine(Tail(lines), target_monitor, TRUE)
                  ELSE IF in_section THEN None
                  ELSE SectionModesLine(Tail(lines), target_monitor, FALSE)
             ELSE IF in_section /\ StartsWith(trimmed, AvailableModesPrefix)
             THEN Some(trimmed)
             ELSE SectionModesLine(Tail(lines), target_monitor, in_section)

\* C23: the availableModes line a successful query takes its resolutions from
\* is the one of the section whose header names exactly the queried monitor; a
\* header naming another monitor, DP-10 for the query of DP-1 included, does not
\* open the section and ends it.
C23_SectionScoping ==
    (call.op = "modes" /\ call.success)
    => /\ QueryModesLine
          = SectionModesLine(Lines(query[1].stdout), query[1].monitor_name, FALSE)
       /\ SectionModesLine(Lines(query[1].stdout), query[1].monitor_name, FALSE) = None
          => available_modes = ParseFallback

\* The query of DP-1 on a text with the section of DP-10 only: the mode of DP-10
\* is returned.
C23_Witness ==
    /\ call.op = "modes"
    /\ call.success
    /\ query[1].monitor_name = DP1
    /\ Len(Lines(query[1].stdout)) = 2
    /\ HeaderName(Trim(Lines(query[1].stdout)[1])) = <<"D", "P", "-", "1", "0">>
    /\ available_modes = <<Res2560x1440>>

\* One or more digits, an x, one or more digits.
IsWidthByHeight(text) ==
    \E i \in 2..(Len(text) - 1) :
       /\ text[i] = "x"
       /\ \A j \in (DOMAIN text) \ {i} : IsAsciiDigit(text[j])

\* C24: a token of the availableModes line gives a resolution only when it
\* contains an @ and the resolution is digits, x, digits; every resolution a
\* successful query found is of that shape.
C24_TokenShape ==
    (call.op = "modes" /\ call.success)
    => /\ \A i \in AcceptedTokens :
             /\ Contains(ModesLineTokens[i], "@")
             /\ IsWidthByHeight(extract_resolution_from_line(ModesLineTokens[i])[1])
       /\ Scanned # <<>>
          => \A i \in DOMAIN available_modes : IsWidthByHeight(available_modes[i])

\* The tokens 1920x@60Hz and 1x2x3@30Hz give the resolutions 1920x and 1x2x3.
C24_Witness ==
    /\ call.op = "modes"
    /\ call.success
    /\ available_modes = <<<<"1", "9", "2", "0", "x">>, <<"1", "x", "2", "x", "3">> >>

(***************************************************************************)
(* Properties of the host application (specification SpecHost)             *)
(***************************************************************************)
\* C22: every step is taken by a running process, and a step that handles
\* SetMode, ApplyExtendSettings or ResetToDefaults leaves the process exited,
\* whether what it applied succeeded or failed and whether or not the state
\* let it apply anything; nothing is handled after it.
C22_SingleShot ==
    [][/\ pc = "running"
       /\ call'.op \in {"SetMode", "ApplyExtendSettings", "ResetToDefaults"}
          => pc' = "exited"]_vars

\* SetMode before the monitors are loaded: nothing is issued and the process
\* has exited.
C22_Witness ==
    /\ call.op = "SetMode"
    /\ host.state = "Loading"
    /\ issued = <<>>
    /\ pc = "exited"

\* SetMode(Extend) handled with two or more monitors loaded.
ExtendModeSet ==
    /\ call.op = "SetMode"
    /\ call.mode = "Extend"
    /\ host.state = "Loaded"
    /\ Len(monitors) >= 2

SettingsApplied == call.op = "ApplyExtendSettings" /\ call.config # None

\* C30: after ApplyExtendSettings the store holds the configuration of the
\* settings under its key, stamped with the time of the save, and the pointer
\* names it, whatever the write and apply_extend_mode returned; the write of the
\* file comes first and once; apply_extend_mode was then run whatever the write
\* returned, and its result is the one reported; a write that succeeded left
\* the store in the file.
C30_SaveThenApply ==
    SettingsApplied
    => LET c == call.config[1]
           key == c.primary_monitor \o <<"_">> \o c.secondary_monitor
           applied == apply_extend_mode(monitors, c, call.fail_at)
       IN  /\ key \in DOMAIN extend_configurations
           /\ extend_configurations[key] = [c EXCEPT !.last_used = now]
           /\ last_used_extend_config = Some(key)
           /\ Len(issued) >= 1
           /\ issued[1].kind = "write"
           /\ \A i \in 2..Len(issued) : issued[i].kind # "write"
           /\ Tail(issued) = applied.issued
           /\ result = applied.result
           /\ call.saved.ok = (call.write = "written")
           /\ call.write = "written"
              => file = Some(to_string_pretty(DisplayConfig(extend_configurations,
                                                            last_used_extend_config)))

\* The write failed and the last dispatch of apply_extend_mode failed: the five
\* steps were issued and the store holds the record.
C30_Witness ==
    /\ SettingsApplied
    /\ ~call.saved.ok
    /\ ~result.ok
    /\ Len(issued) = 6
    /\ generate_config_key(call.config[1]) \in DOMAIN extend_configurations

====
